---- MODULE Spec2Model ----
(***************************************************************************)
(* Model of the Korea feasibility pipeline: the Seoul city adapter         *)
(* (address, parcel, zoning, regulation resolution over two registries),   *)
(* the facade functions built on it, the massing calculator, the           *)
(* confidence reporter and the zustand pipeline store.                     *)
(*                                                                         *)
(* Conventions                                                             *)
(*  - A Hangul string is a tuple of syllables, each syllable written in    *)
(*    Latin letters ("gang","nam","gu" for the three characters of the     *)
(*    district name).  One syllable is one UTF-16 code unit.               *)
(*  - A digit string is a tuple of digits 0..9.                            *)
(*  - An optional value (T | undefined | null) is a tuple of length 0 or 1.*)
(*  - An optional number is the number, or Undefined (-1).                 *)
(*  - Coordinates are integers in units of 1e-7 degree; areas are in       *)
(*    hundredths of a square metre; heights in tenths of a metre.          *)
(***************************************************************************)
EXTENDS Integers, Sequences, FiniteSets, TLC

VARIABLES
    vworldKey,      \* import.meta.env.VITE_VWORLD_API_KEY is set
    dataGoKrKey,    \* import.meta.env.VITE_DATA_GO_KR_API_KEY is set
    call,           \* the adapter / facade call made last, with its inputs
    ret,            \* what that call returned or threw, and the registry requests it issued
    store,          \* the zustand store's state
    tasks,          \* the in-flight async store operations (analyze, recalculateWithZoning)
    lastEvent,      \* what the last store step did (history variable)
    healthStatus    \* the DataGoKrClient instance's healthStatus field

vars == <<vworldKey, dataGoKrKey, call, ret, store, tasks, lastEvent, healthStatus>>

----------------------------------------------------------------------------
(* Generic helpers *)

Undefined == -1

None == <<>>
Some(x) == <<x>>
IsSome(o) == Len(o) > 0
Get(o) == o[1]

HasKey(table, k) == \E p \in table : p[1] = k
Lookup(table, k) == (CHOOSE p \in table : p[1] = k)[2]

Range(s) == {s[i] : i \in 1..Len(s)}

Min(a, b) == IF a <= b THEN a ELSE b

RECURSIVE DigitsOf(_)
\* Number.prototype.toString() of a non-negative integer, as a digit string
DigitsOf(n) == IF n < 10 THEN <<n>> ELSE DigitsOf(n \div 10) \o <<n % 10>>

RECURSIVE Zeros(_)
Zeros(k) == IF k <= 0 THEN <<>> ELSE <<0>> \o Zeros(k - 1)

\* String.prototype.padStart(width, '0'): strings already that long are left alone
padStart(s, width) == Zeros(width - Len(s)) \o s

RECURSIVE parseIntDigits(_)
\* parseInt(s, 10) of a non-empty digit string
parseIntDigits(s) ==
    IF Len(s) = 0 THEN 0
    ELSE parseIntDigits(SubSeq(s, 1, Len(s) - 1)) * 10 + s[Len(s)]

----------------------------------------------------------------------------
(* Domain tables *)

ZoningCodes ==
    {"R1E", "R2E", "R1G", "R2G", "R3G", "RSR", "CC", "CG", "CN", "CD",
     "IE", "IG", "ISI", "GC", "GP", "GN"}

\* SEOUL_REGULATIONS: per code <<far.typical, bcr.seoulMax, height.maxHeight, height.source>>
\* (maxHeight is null for every code: Undefined)
SEOUL_REGULATIONS ==
    { <<"R1E", [far |-> 80,   bcr |-> 50, maxHeight |-> Undefined, heightSource |-> "ordinance"]>>,
      <<"R2E", [far |-> 120,  bcr |-> 50, maxHeight |-> Undefined, heightSource |-> "ordinance"]>>,
      <<"R1G", [far |-> 150,  bcr |-> 60, maxHeight |-> Undefined, heightSource |-> "ordinance"]>>,
      <<"R2G", [far |-> 200,  bcr |-> 60, maxHeight |-> Undefined, heightSource |-> "ordinance"]>>,
      <<"R3G", [far |-> 250,  bcr |-> 50, maxHeight |-> Undefined, heightSource |-> "none"]>>,
      <<"RSR", [far |-> 400,  bcr |-> 70, maxHeight |-> Undefined, heightSource |-> "none"]>>,
      <<"CC",  [far |-> 1000, bcr |-> 90, maxHeight |-> Undefined, heightSource |-> "none"]>>,
      <<"CG",  [far |-> 800,  bcr |-> 80, maxHeight |-> Undefined, heightSource |-> "none"]>>,
      <<"CN",  [far |-> 600,  bcr |-> 70, maxHeight |-> Undefined, heightSource |-> "none"]>>,
      <<"CD",  [far |-> 800,  bcr |-> 80, maxHeight |-> Undefined, heightSource |-> "none"]>>,
      <<"IE",  [far |-> 200,  bcr |-> 70, maxHeight |-> Undefined, heightSource |-> "none"]>>,
      <<"IG",  [far |-> 250,  bcr |-> 70, maxHeight |-> Undefined, heightSource |-> "none"]>>,
      <<"ISI", [far |-> 300,  bcr |-> 70, maxHeight |-> Undefined, heightSource |-> "none"]>>,
      <<"GC",  [far |-> 50,   bcr |-> 20, maxHeight |-> Undefined, heightSource |-> "ordinance"]>>,
      <<"GP",  [far |-> 80,   bcr |-> 20, maxHeight |-> Undefined, heightSource |-> "ordinance"]>>,
      <<"GN",  [far |-> 80,   bcr |-> 20, maxHeight |-> Undefined, heightSource |-> "ordinance"]>> }

CODE_TO_CATEGORY ==
    { <<"R1E", "residential">>, <<"R2E", "residential">>, <<"R1G", "residential">>,
      <<"R2G", "residential">>, <<"R3G", "residential">>, <<"RSR", "residential">>,
      <<"CC", "commercial">>, <<"CG", "commercial">>, <<"CN", "commercial">>,
      <<"CD", "commercial">>, <<"IE", "industrial">>, <<"IG", "industrial">>,
      <<"ISI", "industrial">>, <<"GC", "green">>, <<"GP", "green">>, <<"GN", "green">> }

\* SEOUL_DISTRICT_CODES: district name -> 3-digit code
SEOUL_DISTRICT_CODES ==
    { << <<"jong","ro","gu">>,          <<1,1,0>> >>,
      << <<"jung","gu">>,               <<1,4,0>> >>,
      << <<"yong","san","gu">>,         <<1,7,0>> >>,
      << <<"seong","dong","gu">>,       <<2,0,0>> >>,
      << <<"gwang","jin","gu">>,        <<2,1,5>> >>,
      << <<"dong","dae","mun","gu">>,   <<2,3,0>> >>,
      << <<"jung","rang","gu">>,        <<2,6,0>> >>,
      << <<"seong","buk","gu">>,        <<2,9,0>> >>,
      << <<"gang","buk","gu">>,         <<3,0,5>> >>,
      << <<"do","bong","gu">>,          <<3,2,0>> >>,
      << <<"no","won","gu">>,           <<3,5,0>> >>,
      << <<"eun","pyeong","gu">>,       <<3,8,0>> >>,
      << <<"seo","dae","mun","gu">>,    <<4,1,0>> >>,
      << <<"ma","po","gu">>,            <<4,4,0>> >>,
      << <<"yang","cheon","gu">>,       <<4,7,0>> >>,
      << <<"gang","seo","gu">>,         <<5,0,0>> >>,
      << <<"gu","ro","gu">>,            <<5,3,0>> >>,
      << <<"geum","cheon","gu">>,       <<5,4,5>> >>,
      << <<"yeong","deung","po","gu">>, <<5,6,0>> >>,
      << <<"dong","jak","gu">>,         <<5,9,0>> >>,
      << <<"gwan","ak","gu">>,          <<6,2,0>> >>,
      << <<"seo","cho","gu">>,          <<6,5,0>> >>,
      << <<"gang","nam","gu">>,         <<6,8,0>> >>,
      << <<"song","pa","gu">>,          <<7,1,0>> >>,
      << <<"gang","dong","gu">>,        <<7,4,0>> >> }

\* DISTRICT_ZONING_MAP: district name -> typical zoning code (district inference)
DISTRICT_ZONING_MAP ==
    { << <<"gang","nam","gu">>, "R3G" >>,         << <<"seo","cho","gu">>, "R3G" >>,
      << <<"song","pa","gu">>, "R2G" >>,          << <<"gang","dong","gu">>, "R2G" >>,
      << <<"ma","po","gu">>, "RSR" >>,            << <<"yeong","deung","po","gu">>, "CG" >>,
      << <<"jong","ro","gu">>, "CG" >>,           << <<"jung","gu">>, "CC" >>,
      << <<"yong","san","gu">>, "R2G" >>,         << <<"seong","dong","gu">>, "ISI" >>,
      << <<"gwang","jin","gu">>, "R2G" >>,        << <<"dong","dae","mun","gu">>, "R2G" >>,
      << <<"jung","rang","gu">>, "R2G" >>,        << <<"seong","buk","gu">>, "R1G" >>,
      << <<"gang","buk","gu">>, "R1G" >>,         << <<"do","bong","gu">>, "R1G" >>,
      << <<"no","won","gu">>, "R2G" >>,           << <<"eun","pyeong","gu">>, "R1G" >>,
      << <<"seo","dae","mun","gu">>, "R2G" >>,    << <<"yang","cheon","gu">>, "R2G" >>,
      << <<"gang","seo","gu">>, "R2G" >>,         << <<"dong","jak","gu">>, "R2G" >>,
      << <<"gwan","ak","gu">>, "R2G" >>,          << <<"gu","ro","gu">>, "ISI" >>,
      << <<"geum","cheon","gu">>, "ISI" >> }

\* DISTRICT_COORDINATES: district name -> centre <<lng, lat>> (1e-7 degree)
DISTRICT_COORDINATES ==
    { << <<"jong","ro","gu">>,          <<1269790000, 375735000>> >>,
      << <<"jung","gu">>,               <<1269980000, 375641000>> >>,
      << <<"yong","san","gu">>,         <<1269900000, 375326000>> >>,
      << <<"seong","dong","gu">>,       <<1270370000, 375634000>> >>,
      << <<"gwang","jin","gu">>,        <<1270820000, 375385000>> >>,
      << <<"dong","dae","mun","gu">>,   <<1270400000, 375743000>> >>,
      << <<"jung","rang","gu">>,        <<1270930000, 376066000>> >>,
      << <<"seong","buk","gu">>,        <<1270170000, 375894000>> >>,
      << <<"gang","buk","gu">>,         <<1270110000, 376398000>> >>,
      << <<"do","bong","gu">>,          <<1270470000, 376688000>> >>,
      << <<"no","won","gu">>,           <<1270560000, 376543000>> >>,
      << <<"eun","pyeong","gu">>,       <<1269290000, 376027000>> >>,
      << <<"seo","dae","mun","gu">>,    <<1269370000, 375791000>> >>,
      << <<"ma","po","gu">>,            <<1269010000, 375663000>> >>,
      << <<"yang","cheon","gu">>,       <<1268660000, 375169000>> >>,
      << <<"gang","seo","gu">>,         <<1268500000, 375509000>> >>,
      << <<"gu","ro","gu">>,            <<1268880000, 374955000>> >>,
      << <<"geum","cheon","gu">>,       <<1268960000, 374566000>> >>,
      << <<"yeong","deung","po","gu">>, <<1268960000, 375264000>> >>,
      << <<"dong","jak","gu">>,         <<1269390000, 375124000>> >>,
      << <<"gwan","ak","gu">>,          <<1269520000, 374784000>> >>,
      << <<"seo","cho","gu">>,          <<1270330000, 374837000>> >>,
      << <<"gang","nam","gu">>,         <<1270470000, 375172000>> >>,
      << <<"song","pa","gu">>,          <<1271060000, 375146000>> >>,
      << <<"gang","dong","gu">>,        <<1271240000, 375302000>> >> }

\* String.prototype.charCodeAt of the syllables that occur in the modelled addresses
charCode ==
    { <<"yeok", 50669>>, <<"sam", 49340>>, <<"dong", 46041>>, <<"hap", 54633>>,
      <<"jeong", 51221>>, <<"seong", 49457>>, <<"su", 49688>>, <<"gang", 44053>>,
      <<"myeong", 47749>>, <<"san", 49328>>, <<"gu", 44396>>, <<"nam", 45224>> }

SIDO_SEOUL == <<"seo","ul","teuk","byeol","si">>

----------------------------------------------------------------------------
(* Results and thrown errors *)

NoError == [name |-> "", message |-> "", requiresManualOverride |-> FALSE]
\* new Error(message)
Error(msg) == [name |-> "Error", message |-> msg, requiresManualOverride |-> FALSE]
\* a TypeError raised by the runtime (property access on undefined)
TypeError(msg) == [name |-> "TypeError", message |-> msg, requiresManualOverride |-> FALSE]

\* an operation either returns a value or throws (an async one: resolves or rejects)
Ok(v) == [threw |-> FALSE, value |-> <<v>>, error |-> NoError]
Throw(e) == [threw |-> TRUE, value |-> <<>>, error |-> e]

----------------------------------------------------------------------------
(* Address strings: a sequence of space-separated tokens, each a Hangul    *)
(* word or a lot number "bon" / "bon-bu"                                   *)

W(s) == [kind |-> "word", syl |-> s, bon |-> 0, bu |-> Undefined]
N(b, u) == [kind |-> "num", syl |-> <<>>, bon |-> b, bu |-> u]

tokenLength(t) ==
    IF t.kind = "word" THEN Len(t.syl)
    ELSE Len(DigitsOf(t.bon)) + (IF t.bu = Undefined THEN 0 ELSE 1 + Len(DigitsOf(t.bu)))

RECURSIVE stringLength(_)
\* String.prototype.length of the trimmed input
stringLength(a) ==
    IF Len(a) = 0 THEN 0
    ELSE tokenLength(a[1]) + (IF Len(a) > 1 THEN 1 ELSE 0) + stringLength(Tail(a))

StartsWith(w, sub) == Len(w) >= Len(sub) /\ SubSeq(w, 1, Len(sub)) = sub
Contains(w, sub) == \E i \in 1..(Len(w) - Len(sub) + 1) : SubSeq(w, i, i + Len(sub) - 1) = sub

\* isAddressInCity: /^서울/, /서울특별시/, /서울시/ (inputs are Hangul and digits, so
\* /^seoul/i never matches)
isAddressInCity(a) ==
    \/ Len(a) > 0 /\ a[1].kind = "word" /\ StartsWith(a[1].syl, <<"seo","ul">>)
    \/ \E i \in 1..Len(a) :
          /\ a[i].kind = "word"
          /\ \/ Contains(a[i].syl, SIDO_SEOUL)
             \/ Contains(a[i].syl, <<"seo","ul","si">>)

SuffixIdx(w, endings) == {j \in 2..Len(w) : w[j] \in endings}

\* String.prototype.match(/([가-힣]+X)/) for X one of `endings`: the leftmost
\* Hangul run holding an ending after its first syllable, matched greedily
matchHangulRun(a, endings) ==
    LET hits == {i \in 1..Len(a) : a[i].kind = "word" /\ SuffixIdx(a[i].syl, endings) # {}}
    IN  IF hits = {} THEN None
        ELSE LET i == CHOOSE h \in hits : \A k \in hits : h <= k
                 w == a[i].syl
                 j == CHOOSE h \in SuffixIdx(w, endings) : \A k \in SuffixIdx(w, endings) : h >= k
             IN  Some(SubSeq(w, 1, j))

\* String.prototype.match(/(산\s*)?(\d+)(-(\d+))?/): the first number of the string
matchJibun(a) ==
    LET nums == {i \in 1..Len(a) : a[i].kind = "num"}
    IN  IF nums = {} THEN None
        ELSE LET i == CHOOSE h \in nums : \A k \in nums : h <= k
             IN  Some([san |-> i > 1 /\ a[i-1].kind = "word"
                                    /\ a[i-1].syl[Len(a[i-1].syl)] = "san",
                       bon |-> a[i].bon,
                       bu  |-> a[i].bu])

parseAddressComponents(address, district) ==
    LET parse(dongMatch, jibunMatch) ==
          IF ~IsSome(dongMatch) THEN [dong |-> None, jibunAddress |-> None]
          ELSE [dong |-> dongMatch,
                jibunAddress |-> Some(
                  [sido         |-> SIDO_SEOUL,
                   sigungu      |-> district,
                   eupmyeondong |-> Get(dongMatch),
                   bonbun       |-> IF IsSome(jibunMatch) THEN Get(jibunMatch).bon ELSE 1,
                   bubun        |-> IF IsSome(jibunMatch) THEN Get(jibunMatch).bu
                                    ELSE Undefined,
                   isSan        |-> IF IsSome(jibunMatch) THEN Get(jibunMatch).san
                                    ELSE FALSE])]
    IN  parse(matchHangulRun(address, {"dong", "eup", "myeon"}), matchJibun(address))

\* formatJibunAddress, as the parts the formatted string shows
formatJibunAddress(ja) ==
    [sido |-> ja.sido, sigungu |-> ja.sigungu, dong |-> Some(ja.eupmyeondong),
     san |-> ja.isSan, bonbun |-> ja.bonbun,
     bubun |-> IF ja.bubun # Undefined /\ ja.bubun > 0 THEN ja.bubun ELSE Undefined]

normalizeAddress(district, parsed) ==
    IF IsSome(parsed.jibunAddress) THEN formatJibunAddress(Get(parsed.jibunAddress))
    ELSE [sido |-> SIDO_SEOUL, sigungu |-> district, dong |-> parsed.dong,
          san |-> FALSE, bonbun |-> Undefined, bubun |-> Undefined]

RECURSIVE hashFold(_, _)
\* the loop of hashString on 32-bit integers, kept as two 16-bit halves:
\* hash = (hash << 5) - hash + charCode; hash = hash & hash
hashFold(str, h) ==
    IF Len(str) = 0 THEN h
    ELSE LET lo31 == h.lo * 31 + Lookup(charCode, str[1])
             hi31 == h.hi * 31 + lo31 \div 65536
         IN  hashFold(Tail(str), [hi |-> hi31 % 65536, lo |-> lo31 % 65536])

\* hashString: Math.abs of the signed 32-bit hash, as two 16-bit halves
hashString(str) ==
    LET h == hashFold(str, [hi |-> 0, lo |-> 0])
    IN  IF h.hi < 32768 THEN h
        ELSE IF h.lo = 0 THEN [hi |-> 65536 - h.hi, lo |-> 0]
        ELSE [hi |-> 65535 - h.hi, lo |-> 65536 - h.lo]

\* (hi * 65536 + lo) % m for m <= 10000
ModHalves(h, m) == ((h.hi % m) * (65536 % m) + h.lo) % m

getCoordinates(district, dong) ==
    IF HasKey(DISTRICT_COORDINATES, district)
    THEN LET coords == Lookup(DISTRICT_COORDINATES, district)
             offset == IF IsSome(dong) THEN hashString(Get(dong)) ELSE [hi |-> 0, lo |-> 0]
         IN  << coords[1] + ModHalves(offset, 100) * 100,
                coords[2] + ModHalves(offset, 10000) >>
    ELSE <<1269780000, 375665000>>

\* SeoulCityAdapter.resolveAddress
seoulAdapter_resolveAddress(input) ==
    LET failed(msg) == [success |-> FALSE, input |-> input, normalized |-> None,
                        jibunAddress |-> None, coordinates |-> None,
                        confidence |-> "failed", error |-> msg]
        resolved(district, parsed) ==
          [success |-> TRUE, input |-> input,
           normalized |-> Some(normalizeAddress(district, parsed)),
           jibunAddress |-> parsed.jibunAddress,
           coordinates |-> Some(getCoordinates(district, parsed.dong)),
           confidence |-> IF IsSome(parsed.jibunAddress) THEN "approximate"
                          ELSE "district_level",
           error |-> ""]
        withDistrict(districtMatch) ==
          IF ~IsSome(districtMatch) THEN failed("no district found")
          ELSE IF ~HasKey(SEOUL_DISTRICT_CODES, Get(districtMatch))
               THEN failed("not a Seoul district")
          ELSE resolved(Get(districtMatch),
                        parseAddressComponents(input, Get(districtMatch)))
    IN  IF stringLength(input) < 5 THEN failed("address too short")
        ELSE IF ~isAddressInCity(input) THEN failed("not a Seoul address")
        ELSE withDistrict(matchHangulRun(input, {"gu"}))

----------------------------------------------------------------------------
(* Geometry and PNU *)

NaN == -2

\* String.prototype.substring(from, to) on a digit string
substring(s, from, to) == SubSeq(s, from + 1, Min(to, Len(s)))

\* parseInt(s, 10) of a digit string; NaN for the empty string
parseInt(s) == IF Len(s) = 0 THEN NaN ELSE parseIntDigits(s)

RECURSIVE shoelaceSum(_, _, _)
\* sum over i < n of x_i*y_j - x_j*y_i with j = (i+1) % n, on coordinates taken
\* relative to the first vertex (the sum is translation invariant)
shoelaceSum(coords, n, i) ==
    IF i > n THEN 0
    ELSE LET j  == (i % n) + 1
             xi == coords[i][1] - coords[1][1]
             yi == coords[i][2] - coords[1][2]
             xj == coords[j][1] - coords[1][1]
             yj == coords[j][2] - coords[1][2]
         IN  xi * yj - xj * yi + shoelaceSum(coords, n, i + 1)

\* |sum| (1e-7 degree squared) * 88000 * 111000 / 2 to hundredths of a square metre
areaFromShoelace(sum2) ==
    LET a == IF sum2 < 0 THEN -sum2 ELSE sum2
        scaled == (a \div 1000) * 9768 + ((a % 1000) * 9768) \div 1000
    IN  (scaled + 1000) \div 2000

\* Fault injection: a calculateAreaFromGeometry that keeps the sign of the
\* shoelace sum (no Math.abs).
calculateAreaFromGeometry_signed(coordinates) ==
    IF Len(coordinates) = 0 THEN Throw(TypeError("coordinates[0] is undefined"))
    ELSE LET coords == coordinates[1]
             signed(sum2) == IF sum2 < 0 THEN 0 - areaFromShoelace(sum2)
                             ELSE areaFromShoelace(sum2)
         IN  IF Len(coords) < 3 THEN Ok(0)
             ELSE Ok(signed(shoelaceSum(coords, Len(coords) - 1, 1)))

\* calculateAreaFromGeometry: reads coordinates[0], so a geometry without rings throws
calculateAreaFromGeometry(coordinates) ==
    IF Len(coordinates) = 0 THEN Throw(TypeError("coordinates[0] is undefined"))
    ELSE LET coords == coordinates[1]
         IN  IF Len(coords) < 3 THEN Ok(0)
             ELSE Ok(areaFromShoelace(shoelaceSum(coords, Len(coords) - 1, 1)))

\* Fault injection: a parsePNU that reads the lot numbers one character late.
parsePNU_shifted(pnu) ==
    IF Len(pnu) # 19 THEN None
    ELSE IF pnu[19] # 1 /\ pnu[19] # 2 THEN None
    ELSE Some([full |-> pnu, sido |-> substring(pnu, 0, 2),
               sigungu |-> substring(pnu, 2, 5),
               eupmyeondong |-> substring(pnu, 5, 8), ri |-> substring(pnu, 8, 10),
               bonbun |-> substring(pnu, 11, 15), bubun |-> substring(pnu, 15, 19),
               sanType |-> pnu[19]])

\* parcel.parsePNU: null (None) unless the string has 19 characters and ends in
\* '1' or '2'
parsePNU(pnu) ==
    IF Len(pnu) # 19 THEN None
    ELSE IF pnu[19] # 1 /\ pnu[19] # 2 THEN None
    ELSE Some([full |-> pnu, sido |-> substring(pnu, 0, 2),
               sigungu |-> substring(pnu, 2, 5),
               eupmyeondong |-> substring(pnu, 5, 8), ri |-> substring(pnu, 8, 10),
               bonbun |-> substring(pnu, 10, 14), bubun |-> substring(pnu, 14, 18),
               sanType |-> pnu[19]])

\* parcel.buildPNU
buildPNU(c) ==
    c.sido \o padStart(c.sigungu, 3) \o padStart(c.eupmyeondong, 3) \o padStart(c.ri, 2)
           \o padStart(c.bonbun, 4) \o padStart(c.bubun, 4) \o <<c.sanType>>

\* SeoulCityAdapter.generatePNU
generatePNU(jibunAddress) ==
    LET withFull(parts) ==
          [full |-> buildPNU(parts), sido |-> parts.sido, sigungu |-> parts.sigungu,
           eupmyeondong |-> parts.eupmyeondong, ri |-> parts.ri,
           bonbun |-> parts.bonbun, bubun |-> parts.bubun, sanType |-> parts.sanType]
        bonbun == IF jibunAddress.bonbun = Undefined THEN <<1>>
                  ELSE DigitsOf(jibunAddress.bonbun)
        bubun  == IF jibunAddress.bubun = Undefined THEN <<0>>
                  ELSE DigitsOf(jibunAddress.bubun)
    IN  IF ~HasKey(SEOUL_DISTRICT_CODES, jibunAddress.sigungu)
        THEN Throw(Error("unknown district"))
        ELSE Ok(withFull([sido |-> <<1,1>>,
                          sigungu |-> Lookup(SEOUL_DISTRICT_CODES, jibunAddress.sigungu),
                          eupmyeondong |-> <<1,0,1>>, ri |-> <<0,0>>,
                          bonbun |-> padStart(bonbun, 4), bubun |-> padStart(bubun, 4),
                          sanType |-> IF jibunAddress.isSan THEN 2 ELSE 1]))

\* half of widthDeg 0.0002 and of heightDeg 0.00028
halfW == 1000
halfH == 1400

\* Fault injection: a generateMockParcel that puts a lot without address in
\* Gangnam-gu, Yeoksam-dong instead of refusing it.
generateMockParcel_defaultDistrict(coordinates, jibunAddress) ==
    LET address == IF IsSome(jibunAddress) THEN Get(jibunAddress)
                   ELSE [sido |-> SIDO_SEOUL, sigungu |-> <<"gang","nam","gu">>,
                         eupmyeondong |-> <<"yeok","sam","dong">>,
                         bonbun |-> 1, bubun |-> Undefined, isSan |-> FALSE]
        build(geometry, area, pnu) ==
          IF pnu.threw THEN pnu
          ELSE Ok([pnu |-> Get(pnu.value),
                   jibunAddress |-> address,
                   coordinates |-> geometry,
                   area |-> Get(area.value),
                   dataSource |-> [provider |-> "LOCAL_MOCK", reliability |-> "estimated"]])
        withGeometry(geometry) ==
          build(geometry, calculateAreaFromGeometry(geometry), generatePNU(address))
    IN  withGeometry(<< << <<coordinates[1] - halfW, coordinates[2] - halfH>>,
                            <<coordinates[1] + halfW, coordinates[2] - halfH>>,
                            <<coordinates[1] + halfW, coordinates[2] + halfH>>,
                            <<coordinates[1] - halfW, coordinates[2] + halfH>>,
                            <<coordinates[1] - halfW, coordinates[2] - halfH>> >> >>)

\* SeoulCityAdapter.generateMockParcel
generateMockParcel(coordinates, jibunAddress) ==
    LET build(geometry, area, pnu) ==
          IF pnu.threw THEN pnu
          ELSE Ok([pnu |-> Get(pnu.value),
                   jibunAddress |-> Get(jibunAddress),
                   coordinates |-> geometry,
                   area |-> Get(area.value),
                   dataSource |-> [provider |-> "LOCAL_MOCK", reliability |-> "estimated"]])
        withGeometry(geometry) ==
          build(geometry, calculateAreaFromGeometry(geometry),
                generatePNU(Get(jibunAddress)))
    IN  IF ~IsSome(jibunAddress) \/ Len(Get(jibunAddress).sigungu) = 0
        THEN Throw(Error("cannot extract district from address"))
        ELSE withGeometry(<< << <<coordinates[1] - halfW, coordinates[2] - halfH>>,
                                <<coordinates[1] + halfW, coordinates[2] - halfH>>,
                                <<coordinates[1] + halfW, coordinates[2] + halfH>>,
                                <<coordinates[1] - halfW, coordinates[2] + halfH>>,
                                <<coordinates[1] - halfW, coordinates[2] - halfH>> >> >>)

----------------------------------------------------------------------------
(* Registry clients.  An HTTP exchange is given by its response:           *)
(*   kind "network_error"  fetch() rejects                                 *)
(*        "http_error"     response.ok is false                            *)
(*        "invalid_json"   response.json() rejects                         *)
(*        "json"           a parsed body                                   *)

\* Object.entries order of nameMap / ZONE_NAME_MAP
ZONE_NAME_ORDER ==
    <<"R1E", "R2E", "R1G", "R2G", "R3G", "RSR", "CC", "CG", "CN", "CD",
      "IE", "IG", "ISI", "GC", "GP", "GN">>

ZONE_CODE_MAP ==
    { <<"UQA100", "R1E">>, <<"UQA110", "R2E">>, <<"UQA120", "R1G">>, <<"UQA130", "R2G">>,
      <<"UQA140", "R3G">>, <<"UQA150", "RSR">>, <<"UQA200", "CC">>,  <<"UQA210", "CG">>,
      <<"UQA220", "CN">>,  <<"UQA230", "CD">>,  <<"UQA300", "IE">>,  <<"UQA310", "IG">>,
      <<"UQA320", "ISI">>, <<"UQA400", "GC">>,  <<"UQA410", "GP">>,  <<"UQA420", "GN">> }

\* A zone name is its text together with the codes whose Korean names it
\* contains (includes) and, when it is exactly one of them, that code (exact).
ZoneName(text, exact, includes) == [text |-> text, exact |-> exact, includes |-> includes]

\* the first code, in table order, whose Korean name the zone name contains
firstIncluded(name) ==
    LET idx == {i \in 1..Len(ZONE_NAME_ORDER) : ZONE_NAME_ORDER[i] \in name.includes}
    IN  IF idx = {} THEN None
        ELSE Some(ZONE_NAME_ORDER[CHOOSE i \in idx : \A k \in idx : i <= k])

\* VWorldClient.mapZoningNameToCode
mapZoningNameToCode(name) ==
    IF IsSome(name.exact) THEN Get(name.exact)
    ELSE IF IsSome(firstIncluded(name)) THEN Get(firstIncluded(name))
    ELSE name.text

\* PNUSchema: exactly 19 characters, digits only
validatePNU(pnu) == Len(pnu) = 19 /\ \A i \in 1..Len(pnu) : pnu[i] \in 0..9

\* VWorldClient.parsePNU / DataGoKrClient.parsePNU
client_parsePNU(pnu) ==
    [full |-> pnu, sido |-> substring(pnu, 0, 2), sigungu |-> substring(pnu, 2, 5),
     eupmyeondong |-> substring(pnu, 5, 8), ri |-> substring(pnu, 8, 10),
     bonbun |-> substring(pnu, 10, 14), bubun |-> substring(pnu, 14, 18),
     sanType |-> IF Len(pnu) >= 19 /\ pnu[19] = 2 THEN 2 ELSE 1]

\* VWorldClient.parseJibunAddress / DataGoKrClient.parseJibunAddress; addr is the
\* address property split on ' ' (the empty string splits into one empty part)
client_parseJibunAddress(addr, pnu) ==
    LET bonbun == parseInt(substring(pnu, 10, 14))
        bubun  == parseInt(substring(pnu, 14, 18))
    IN  [sido         |-> IF Len(addr) >= 3 THEN addr[1] ELSE SIDO_SEOUL,
         sigungu      |-> IF Len(addr) >= 3 THEN addr[2]
                          ELSE IF Len(addr) = 2 THEN addr[1] ELSE <<>>,
         eupmyeondong |-> IF Len(addr) >= 3 THEN addr[3]
                          ELSE IF Len(addr) = 2 THEN addr[2]
                          ELSE IF Len(addr) = 1 THEN addr[1] ELSE <<>>,
         bonbun       |-> bonbun,
         bubun        |-> IF bubun > 0 THEN bubun ELSE Undefined,
         isSan        |-> Len(pnu) >= 19 /\ pnu[19] = 2]

\* parseFeatureToParcel of either client: area = props.area || calculateArea(geometry)
client_parseFeatureToParcel(feature, pnu, provider) ==
    LET build(area) ==
          IF area.threw THEN area
          ELSE Ok([pnu |-> client_parsePNU(pnu),
                   jibunAddress |-> client_parseJibunAddress(feature.addr, pnu),
                   coordinates |-> feature.coordinates,
                   area |-> Get(area.value),
                   dataSource |-> [provider |-> provider, reliability |-> "official"]])
    IN  build(IF feature.area # 0 THEN Ok(feature.area)
              ELSE calculateAreaFromGeometry(feature.coordinates))

client_fetchParcelByCoordinates(response, source, provider) ==
    LET fail(msg) == [success |-> FALSE, parcel |-> None, error |-> msg, source |-> source]
    IN  CASE response.kind = "network_error" -> fail("network error")
          [] response.kind = "http_error"    -> fail("HTTP error")
          [] response.kind = "invalid_json"  -> fail("invalid JSON")
          [] OTHER ->
               IF Len(response.features) = 0 THEN fail("no parcel at coordinates")
               ELSE LET built(parsed) ==
                          IF parsed.threw THEN fail(parsed.error.message)
                          ELSE [success |-> TRUE, parcel |-> parsed.value, error |-> "",
                                source |-> source]
                    IN  built(client_parseFeatureToParcel(
                                response.features[1], response.features[1].pnu, provider))

\* VWorldClient.fetchParcelByCoordinates
VWorld_fetchParcelByCoordinates(lng, lat, response) ==
    client_fetchParcelByCoordinates(response, "VWORLD", "VWORLD")

\* DataGoKrClient.fetchParcelByCoordinates (a feature's rings are given by their
\* WGS84 image under ensureWgs84)
DataGoKr_fetchParcelByCoordinates(lng, lat, response) ==
    client_fetchParcelByCoordinates(response, "DATA_GO_KR", "NSDI")

\* VWorldClient.fetchZoningByCoordinates; a feature is the zone name it carries
\* (props.uname || props.name || '')
VWorld_fetchZoningByCoordinates(lng, lat, response) ==
    LET fail(msg) == [success |-> FALSE, zoningCode |-> "", zoningName |-> "",
                      regulations |-> <<>>, error |-> msg, source |-> "VWORLD"]
    IN  CASE response.kind = "network_error" -> fail("network error")
          [] response.kind = "http_error"    -> fail("HTTP error")
          [] response.kind = "invalid_json"  -> fail("invalid JSON")
          [] OTHER ->
               IF Len(response.features) = 0 THEN fail("No zoning data found at coordinates")
               ELSE LET zoningName == response.features[1]
                    IN  [success |-> TRUE, zoningCode |-> mapZoningNameToCode(zoningName),
                         zoningName |-> zoningName.text, regulations |-> <<>>,
                         error |-> "", source |-> "VWORLD"]

\* the internal code of one regulation item: by ZONE_CODE_MAP, else by name, else the code
internalCodeOf(item) ==
    IF HasKey(ZONE_CODE_MAP, item.code) THEN Lookup(ZONE_CODE_MAP, item.code)
    ELSE IF item.name.text # "" /\ IsSome(firstIncluded(item.name))
         THEN Get(firstIncluded(item.name))
    ELSE item.code

\* DataGoKrClient.parseRegulations; an item is [code, isUQA, name] where isUQA
\* is code.startsWith('UQA')
parseRegulations(items) ==
    LET prim == {i \in 1..Len(items) : items[i].isUQA}
        first == CHOOSE i \in prim : \A k \in prim : i <= k
    IN  [regulations |-> [i \in 1..Len(items) |->
                            [code |-> internalCodeOf(items[i]),
                             startsWithUQA |-> items[i].isUQA
                                               /\ ~HasKey(ZONE_CODE_MAP, items[i].code)
                                               /\ ~(items[i].name.text # ""
                                                    /\ IsSome(firstIncluded(items[i].name))),
                             name |-> items[i].name.text]],
         zoningCode |-> IF prim = {} THEN "" ELSE internalCodeOf(items[first]),
         zoningName |-> IF prim = {} THEN "" ELSE items[first].name.text]

\* DataGoKrClient.fetchRegulationsByPNU; `requested` tells whether an HTTP request was made
DataGoKr_fetchRegulationsByPNU(pnu, response) ==
    LET fail(msg) == [success |-> FALSE, zoningCode |-> "", zoningName |-> "",
                      regulations |-> <<>>, error |-> msg, source |-> "DATA_GO_KR"]
    IN  IF ~validatePNU(pnu) THEN fail("invalid PNU")
        ELSE CASE response.kind = "network_error" -> fail("network error")
               [] response.kind = "http_error"    -> fail("HTTP error")
               [] response.kind = "invalid_json"  -> fail("invalid JSON")
               [] OTHER ->
                    IF ~response.valid THEN fail("response format invalid")
                    ELSE IF response.resultCode # "00" THEN fail("result code not 00")
                    ELSE IF ~IsSome(response.items) THEN fail("no regulation data for PNU")
                    ELSE LET parsed == parseRegulations(Get(response.items))
                         IN  [success |-> TRUE, zoningCode |-> parsed.zoningCode,
                              zoningName |-> parsed.zoningName,
                              regulations |-> parsed.regulations,
                              error |-> "", source |-> "DATA_GO_KR"]

\* What fetchRegulationsByPNU leaves in this.healthStatus: ERROR and an error
\* text when the request fails in transport, OK when items arrive, and the
\* field as it was on every other return.  errors.regulation is never cleared.
fetchRegulationsByPNU_healthStatus(health, pnu, response) ==
    IF ~validatePNU(pnu) THEN health
    ELSE CASE response.kind = "http_error" ->
                [health EXCEPT !.regulation = "ERROR", !.errors.regulation = "HTTP status"]
           [] response.kind \in {"network_error", "invalid_json"} ->
                [health EXCEPT !.regulation = "ERROR", !.errors.regulation = response.kind]
           [] OTHER ->
                IF ~response.valid \/ response.resultCode # "00" \/ ~IsSome(response.items)
                THEN health
                ELSE [health EXCEPT !.regulation = "OK"]

----------------------------------------------------------------------------
(* Seoul city adapter: parcel and zoning fallback ladders.  Every adapter  *)
(* operation yields what it returned or threw (out) and the registry       *)
(* requests it issued, in order (requests).                                *)

\* Fault injection: a client that reports itself unavailable whatever its key.
neverAvailable == FALSE

isVWorldAvailable == vworldKey
isDataGoKrAvailable == dataGoKrKey

\* a registry request and whether the lookup it serves succeeded
Req(registry, op, ok) == [registry |-> registry, op |-> op, ok |-> ok]

ParcelFailure(source, msg) ==
    [success |-> FALSE, parcel |-> None, source |-> source, confidence |-> "estimated",
     error |-> msg]

NoLookup == [result |-> ParcelFailure("none", "not attempted"), requests |-> <<>>]

\* the merge {...result.parcel.jibunAddress, ...jibunAddress}: both have the same keys
mergeJibunAddress(parcel, jibunAddress) ==
    IF IsSome(jibunAddress) THEN [parcel EXCEPT !.jibunAddress = Get(jibunAddress)]
    ELSE parcel

\* the common body of fetchParcelFromVWorld / fetchParcelFromDataGoKr (the client
\* catches every error itself, so the catch branch of the adapter is not taken)
fetchParcelFrom(clientAvailable, clientName, result, registry, jibunAddress) ==
    IF ~clientAvailable
    THEN [result |-> ParcelFailure("mock", clientName), requests |-> <<>>]
    ELSE [result |->
            IF result.success /\ IsSome(result.parcel)
            THEN [success |-> TRUE,
                  parcel |-> Some(mergeJibunAddress(Get(result.parcel), jibunAddress)),
                  source |-> "api", confidence |-> "official", error |-> ""]
            ELSE ParcelFailure("api", IF result.error # "" THEN result.error
                                      ELSE "No parcel found at coordinates"),
          requests |-> <<Req(registry, "fetchParcelByCoordinates",
                             result.success /\ IsSome(result.parcel))>>]

\* SeoulCityAdapter.fetchParcelFromVWorld
fetchParcelFromVWorld(coordinates, jibunAddress, response) ==
    fetchParcelFrom(vworldKey, "VWorld client not available",
                    VWorld_fetchParcelByCoordinates(coordinates[1], coordinates[2], response),
                    "VWORLD", jibunAddress)

\* SeoulCityAdapter.fetchParcelFromDataGoKr
fetchParcelFromDataGoKr(coordinates, jibunAddress, response) ==
    fetchParcelFrom(dataGoKrKey, "data.go.kr client not available",
                    DataGoKr_fetchParcelByCoordinates(coordinates[1], coordinates[2], response),
                    "DATA_GO_KR", jibunAddress)

\* an input of fetchParcel: a coordinate pair, or the result of resolveAddress
CoordsInput(c) == [isArray |-> TRUE, coordinates |-> Some(c), jibunAddress |-> None,
                   success |-> TRUE]
AddressInput(r) == [isArray |-> FALSE, coordinates |-> r.coordinates,
                    jibunAddress |-> r.jibunAddress, success |-> r.success]

\* SeoulCityAdapter.fetchParcel
seoulAdapter_fetchParcel(addressOrCoords, responseA, responseB) ==
    LET coordinates  == Get(addressOrCoords.coordinates)
        jibunAddress == addressOrCoords.jibunAddress
        mock(parcel) ==
          IF parcel.threw THEN parcel
          ELSE Ok([success |-> TRUE, parcel |-> parcel.value, source |-> "mock",
                   confidence |-> "estimated", error |-> ""])
        ladder(vworld, dataGoKr) ==
          IF vworld.result.success
          THEN [out |-> Ok(vworld.result), requests |-> vworld.requests]
          ELSE IF dataGoKr.result.success
          THEN [out |-> Ok(dataGoKr.result),
                requests |-> vworld.requests \o dataGoKr.requests]
          ELSE IF ~isVWorldAvailable /\ ~isDataGoKrAvailable
          THEN [out |-> mock(generateMockParcel(coordinates, jibunAddress)),
                requests |-> <<>>]
          ELSE [out |-> Ok(ParcelFailure("api", "could not fetch real parcel data")),
                requests |-> vworld.requests \o dataGoKr.requests]
    IN  IF ~addressOrCoords.isArray
           /\ (~addressOrCoords.success \/ ~IsSome(addressOrCoords.coordinates))
        THEN [out |-> Ok(ParcelFailure("mock", "resolve the address first")),
              requests |-> <<>>]
        ELSE ladder(IF isVWorldAvailable
                    THEN fetchParcelFromVWorld(coordinates, jibunAddress, responseA)
                    ELSE NoLookup,
                    IF isDataGoKrAvailable /\ IsSome(jibunAddress)
                    THEN fetchParcelFromDataGoKr(coordinates, jibunAddress, responseB)
                    ELSE NoLookup)

ZoningFailure(method, msg) ==
    [success |-> FALSE, zoningCode |-> "", zoningName |-> "", method |-> method,
     confidence |-> "low", overlays |-> <<>>, error |-> msg]

NoZoningLookup == [result |-> ZoningFailure("none", "not attempted"), requests |-> <<>>]

\* the part of resolveZoningFromVWorld / resolveZoningFromDataGoKr after the client call
zoningFromClientResult(result, overlays) ==
    IF result.success /\ result.zoningCode # ""
    THEN IF HasKey(SEOUL_REGULATIONS, result.zoningCode)
         THEN [success |-> TRUE, zoningCode |-> result.zoningCode,
               zoningName |-> result.zoningName, method |-> "api", confidence |-> "high",
               overlays |-> overlays, error |-> ""]
         ELSE [success |-> TRUE, zoningCode |-> result.zoningCode,
               zoningName |-> result.zoningName, method |-> "api", confidence |-> "medium",
               overlays |-> <<>>, error |-> ""]
    ELSE ZoningFailure("api", IF result.error # "" THEN result.error
                              ELSE "No zoning data found")

\* SeoulCityAdapter.resolveZoningFromVWorld: the centre of the first ring is
\* computed before the request; without a first ring that throws and is caught
resolveZoningFromVWorld(parcel, response) ==
    IF ~vworldKey
    THEN [result |-> ZoningFailure("inference", "VWorld client not available"),
          requests |-> <<>>]
    ELSE IF Len(parcel.coordinates) = 0
    THEN [result |-> ZoningFailure("api", "coords is undefined"), requests |-> <<>>]
    ELSE LET lookup(result) ==
               [result |-> result,
                requests |-> <<Req("VWORLD", "fetchZoningByCoordinates", result.success)>>]
         IN  lookup(zoningFromClientResult(
                      VWorld_fetchZoningByCoordinates(0, 0, response), <<>>))

\* overlays: the regulations whose (internal) code does not start with 'UQA'
overlaysOf(regulations) ==
    SelectSeq([i \in 1..Len(regulations) |->
                 [name |-> regulations[i].name, skip |-> regulations[i].startsWithUQA]],
              LAMBDA r : ~r.skip)

\* SeoulCityAdapter.resolveZoningFromDataGoKr
resolveZoningFromDataGoKr(parcel, response) ==
    IF ~dataGoKrKey
    THEN [result |-> ZoningFailure("inference", "data.go.kr client not available"),
          requests |-> <<>>]
    ELSE LET lookup(zoning) ==
               [result |-> zoning,
                requests |-> IF validatePNU(parcel.pnu.full)
                             THEN <<Req("DATA_GO_KR", "fetchRegulationsByPNU",
                                        zoning.success)>>
                             ELSE <<>>]
             fromClient(result) ==
               lookup(zoningFromClientResult(result, overlaysOf(result.regulations)))
         IN  fromClient(DataGoKr_fetchRegulationsByPNU(parcel.pnu.full, response))

\* Fault injection: a resolveZoning that falls back to the district table after
\* the registries failed, whatever credentials are configured.
seoulAdapter_resolveZoning_inferring(parcel, responseA, responseB) ==
    LET ladder(vworld, dataGoKr, district) ==
          IF vworld.result.success
          THEN [out |-> Ok(vworld.result), requests |-> vworld.requests]
          ELSE IF dataGoKr.result.success
          THEN [out |-> Ok(dataGoKr.result),
                requests |-> vworld.requests \o dataGoKr.requests]
          ELSE IF HasKey(DISTRICT_ZONING_MAP, district)
          THEN [out |-> Ok([success |-> TRUE,
                            zoningCode |-> Lookup(DISTRICT_ZONING_MAP, district),
                            zoningName |-> Lookup(DISTRICT_ZONING_MAP, district),
                            method |-> "inference", confidence |-> "low",
                            overlays |-> <<>>, error |-> ""]),
                requests |-> vworld.requests \o dataGoKr.requests]
          ELSE [out |-> Ok(ZoningFailure("api", "cannot fetch zoning; select it manually")),
                requests |-> vworld.requests \o dataGoKr.requests]
    IN  ladder(IF isVWorldAvailable THEN resolveZoningFromVWorld(parcel, responseA)
               ELSE NoZoningLookup,
               IF isDataGoKrAvailable THEN resolveZoningFromDataGoKr(parcel, responseB)
               ELSE NoZoningLookup,
               parcel.jibunAddress.sigungu)

\* SeoulCityAdapter.resolveZoning
seoulAdapter_resolveZoning(parcel, responseA, responseB) ==
    LET ladder(vworld, dataGoKr, district) ==
          IF vworld.result.success
          THEN [out |-> Ok(vworld.result), requests |-> vworld.requests]
          ELSE IF dataGoKr.result.success
          THEN [out |-> Ok(dataGoKr.result),
                requests |-> vworld.requests \o dataGoKr.requests]
          ELSE IF ~isVWorldAvailable /\ ~isDataGoKrAvailable
                  /\ HasKey(DISTRICT_ZONING_MAP, district)
          THEN [out |-> Ok([success |-> TRUE,
                            zoningCode |-> Lookup(DISTRICT_ZONING_MAP, district),
                            zoningName |-> Lookup(DISTRICT_ZONING_MAP, district),
                            method |-> "inference", confidence |-> "low",
                            overlays |-> <<>>, error |-> ""]),
                requests |-> <<>>]
          ELSE [out |-> Ok(ZoningFailure("api", "cannot fetch zoning; select it manually")),
                requests |-> vworld.requests \o dataGoKr.requests]
    IN  ladder(IF isVWorldAvailable THEN resolveZoningFromVWorld(parcel, responseA)
               ELSE NoZoningLookup,
               IF isDataGoKrAvailable THEN resolveZoningFromDataGoKr(parcel, responseB)
               ELSE NoZoningLookup,
               parcel.jibunAddress.sigungu)

\* SeoulCityAdapter.getRegulations
seoulAdapter_getRegulations(zoningCode) ==
    IF ~HasKey(SEOUL_REGULATIONS, zoningCode)
    THEN [success |-> FALSE, regulations |-> None, source |-> "default",
          confidence |-> "low", error |-> "zoning code not found"]
    ELSE [success |-> TRUE, regulations |-> Some(Lookup(SEOUL_REGULATIONS, zoningCode)),
          source |-> "ordinance", confidence |-> "high", error |-> ""]

----------------------------------------------------------------------------
(* Facade functions over the adapter (legacy types) *)

\* `${bonbun}${bubun ? '-' + bubun : ''}` as the numbers it shows
jibunString(ja) ==
    [bon |-> ja.bonbun,
     bu  |-> IF ja.bubun # Undefined /\ ja.bubun # 0 /\ ja.bubun # NaN THEN ja.bubun
             ELSE Undefined]

\* addressResolver.resolveAddress
resolveAddress(address) ==
    LET convert(result, coords, jibun) ==
          [original |-> result.input,
           normalized |-> result.normalized,
           coordinates |-> [lat |-> coords[2], lng |-> coords[1]],
           components |->
             [sido    |-> IF IsSome(jibun) THEN Get(jibun).sido ELSE SIDO_SEOUL,
              sigungu |-> IF IsSome(jibun) THEN Get(jibun).sigungu ELSE <<>>,
              dong    |-> IF IsSome(jibun) THEN Get(jibun).eupmyeondong ELSE <<>>,
              jibun   |-> IF IsSome(jibun) THEN Some(jibunString(Get(jibun))) ELSE None]]
        awaited(result) ==
          IF ~result.success THEN Throw(Error(result.error))
          ELSE Ok(convert(result,
                          IF IsSome(result.coordinates) THEN Get(result.coordinates)
                          ELSE <<1269780000, 375665000>>,
                          result.jibunAddress))
    IN  awaited(seoulAdapter_resolveAddress(address))

\* parcelFetcher.convertToLegacyParcel
convertToLegacyParcel(parcel) ==
    [pnu |-> parcel.pnu.full,
     address |-> [full    |-> formatJibunAddress(parcel.jibunAddress),
                  sido    |-> parcel.jibunAddress.sido,
                  sigungu |-> parcel.jibunAddress.sigungu,
                  dong    |-> parcel.jibunAddress.eupmyeondong,
                  jibun   |-> jibunString(parcel.jibunAddress)],
     coordinates |-> parcel.coordinates,
     area |-> parcel.area]

\* parcelFetcher.fetchParcel
fetchParcel(address, responseA, responseB) ==
    LET coords == <<address.coordinates.lng, address.coordinates.lat>>
        after(result) ==
          IF ~result.success \/ ~IsSome(result.parcel) THEN Throw(Error(result.error))
          ELSE Ok(convertToLegacyParcel(Get(result.parcel)))
        awaitedParcel(fetched) ==
          IF fetched.out.threw THEN fetched
          ELSE [out |-> after(Get(fetched.out.value)), requests |-> fetched.requests]
        awaitedAddress(addressResult) ==
          awaitedParcel(seoulAdapter_fetchParcel(
                          IF addressResult.success THEN AddressInput(addressResult)
                          ELSE CoordsInput(coords), responseA, responseB))
    IN  awaitedAddress(seoulAdapter_resolveAddress(address.original))

\* zoningResolver.convertToKoreaParcel
convertToKoreaParcel(parcel) ==
    [pnu |-> [full |-> parcel.pnu, sido |-> substring(parcel.pnu, 0, 2),
              sigungu |-> substring(parcel.pnu, 2, 5),
              eupmyeondong |-> substring(parcel.pnu, 5, 8),
              ri |-> substring(parcel.pnu, 8, 10),
              bonbun |-> substring(parcel.pnu, 10, 14),
              bubun |-> substring(parcel.pnu, 14, 18),
              sanType |-> IF Len(parcel.pnu) >= 19 THEN parcel.pnu[19] ELSE Undefined],
     jibunAddress |-> [sido |-> parcel.address.sido,
                       sigungu |-> parcel.address.sigungu,
                       eupmyeondong |-> parcel.address.dong,
                       bonbun |-> IF parcel.address.jibun.bon > 0
                                  THEN parcel.address.jibun.bon ELSE 1,
                       bubun |-> parcel.address.jibun.bu,
                       isSan |-> FALSE],
     coordinates |-> parcel.coordinates,
     area |-> parcel.area,
     dataSource |-> [provider |-> "LOCAL_MOCK", reliability |-> "estimated"]]

mapHeightSource(source) ==
    CASE source = "ordinance"     -> "ordinance"
      [] source = "district_plan" -> "ordinance"
      [] source = "calculated"    -> "assumed"
      [] OTHER                    -> "unknown"

\* new ZoningResolutionError(message, requiresManualOverride)
ZoningResolutionError(msg, requiresManualOverride) ==
    [name |-> "ZoningResolutionError", message |-> msg,
     requiresManualOverride |-> requiresManualOverride]

\* the heightLimit entry both resolveZoning and getZoningRegulations build
heightLimitOf(regulations) ==
    [value |-> regulations.maxHeight,
     source |-> mapHeightSource(regulations.heightSource),
     confidence |-> IF regulations.maxHeight # Undefined /\ regulations.maxHeight # 0
                    THEN "medium" ELSE "unknown"]

\* zoningResolver.resolveZoning
resolveZoning(parcel, responseA, responseB) ==
    LET build(result, regulations) ==
          [code |-> result.zoningCode,
           category |-> Lookup(CODE_TO_CATEGORY, result.zoningCode),
           regulations |->
             [far |-> [value |-> regulations.far,
                       confidence |-> IF result.confidence = "high" THEN "high"
                                      ELSE "medium"],
              bcr |-> [value |-> regulations.bcr, confidence |-> "high"],
              heightLimit |-> heightLimitOf(regulations)],
           source |-> [type |-> IF result.method = "api" THEN "api" ELSE "calculated",
                       method |-> result.method,
                       reliability |-> result.confidence]]
        after(result) ==
          IF ~result.success \/ result.zoningCode = ""
          THEN Throw(ZoningResolutionError(
                       IF result.error # "" THEN result.error
                       ELSE "cannot determine zoning; select it manually", TRUE))
          ELSE IF ~HasKey(SEOUL_REGULATIONS, result.zoningCode)
          THEN Throw(TypeError("regulations is undefined"))
          ELSE Ok(build(result, Lookup(SEOUL_REGULATIONS, result.zoningCode)))
        awaited(resolved) ==
          [out |-> after(Get(resolved.out.value)), requests |-> resolved.requests]
    IN  awaited(seoulAdapter_resolveZoning(convertToKoreaParcel(parcel),
                                           responseA, responseB))

\* Fault injection: a getZoningRegulations that reads the R2G row for every code.
getZoningRegulations_R2G(zoningCode) ==
    LET regulations == Lookup(SEOUL_REGULATIONS, "R2G")
    IN  [far |-> [value |-> regulations.far, confidence |-> "high"],
         bcr |-> [value |-> regulations.bcr, confidence |-> "high"],
         heightLimit |-> heightLimitOf(regulations)]

\* zoningResolver.getZoningRegulations
getZoningRegulations(zoningCode) ==
    LET regulations == Lookup(SEOUL_REGULATIONS, zoningCode)
    IN  [far |-> [value |-> regulations.far, confidence |-> "high"],
         bcr |-> [value |-> regulations.bcr, confidence |-> "high"],
         heightLimit |-> heightLimitOf(regulations)]

\* zoningResolver.resolveZoningWithOverride ("" is no manual code)
resolveZoningWithOverride(parcel, manualZoningCode, responseA, responseB) ==
    IF manualZoningCode # ""
    THEN IF ~HasKey(SEOUL_REGULATIONS, manualZoningCode)
         THEN [out |-> Throw(TypeError("regulations is undefined")), requests |-> <<>>]
         ELSE [out |-> Ok([code |-> manualZoningCode,
                           category |-> Lookup(CODE_TO_CATEGORY, manualZoningCode),
                           regulations |-> getZoningRegulations(manualZoningCode),
                           source |-> [type |-> "manual", method |-> "manual",
                                       reliability |-> "high"]]),
               requests |-> <<>>]
    ELSE resolveZoning(parcel, responseA, responseB)

----------------------------------------------------------------------------
(* Massing calculator.  Lengths are in tenths of a metre, areas in          *)
(* hundredths of a square metre, percentages in percent; the arithmetic is *)
(* exact (the rounding of IEEE doubles is not modelled).                   *)

\* DEFAULT_SETBACKS, tenths of a metre
DEFAULT_SETBACKS ==
    { <<"residential",  [front |-> 30, rear |-> 20, left |-> 15, right |-> 15]>>,
      <<"commercial",   [front |-> 20, rear |-> 15, left |-> 10, right |-> 10]>>,
      <<"industrial",   [front |-> 30, rear |-> 20, left |-> 20, right |-> 20]>>,
      <<"green",        [front |-> 50, rear |-> 30, left |-> 30, right |-> 30]>>,
      <<"management",   [front |-> 30, rear |-> 20, left |-> 20, right |-> 20]>>,
      <<"agricultural", [front |-> 30, rear |-> 20, left |-> 20, right |-> 20]>>,
      <<"natural",      [front |-> 50, rear |-> 30, left |-> 30, right |-> 30]>> }

\* FLOOR_HEIGHT, tenths of a metre
FLOOR_HEIGHT ==
    { <<"residential", 30>>, <<"commercial", 40>>, <<"industrial", 50>>, <<"default", 35>> }

\* Math.round(n / d) for n >= 0, d > 0
RoundDiv(n, d) == (2 * n + d) \div (2 * d)
\* Math.ceil(n / d) for n >= 0, d > 0
CeilDiv(n, d) == (n + d - 1) \div d

getSetbacks(category) ==
    IF HasKey(DEFAULT_SETBACKS, category) THEN Lookup(DEFAULT_SETBACKS, category)
    ELSE Lookup(DEFAULT_SETBACKS, "residential")

floorHeightOf(zoning) ==
    IF HasKey(FLOOR_HEIGHT, zoning.category) THEN Lookup(FLOOR_HEIGHT, zoning.category)
    ELSE Lookup(FLOOR_HEIGHT, "default")

SetMin(S) == CHOOSE x \in S : \A y \in S : x <= y
SetMax(S) == CHOOSE x \in S : \A y \in S : x >= y

\* calculateBuildableFootprint: the bounding box of the first ring, inset by the
\* setbacks converted to degrees (111000 m per degree of latitude, 88000 of longitude)
calculateBuildableFootprint(parcel, setbacks) ==
    IF Len(parcel.coordinates) = 0 THEN Throw(TypeError("coords is undefined"))
    ELSE LET coords == parcel.coordinates[1]
             lngs == {coords[i][1] : i \in 1..Len(coords)}
             lats == {coords[i][2] : i \in 1..Len(coords)}
             frontSetbackDeg == RoundDiv(setbacks.front * 1000, 111)
             rearSetbackDeg  == RoundDiv(setbacks.rear * 1000, 111)
             leftSetbackDeg  == RoundDiv(setbacks.left * 1000, 88)
             rightSetbackDeg == RoundDiv(setbacks.right * 1000, 88)
         IN  IF Len(coords) = 0 THEN Ok(<<>>)
             ELSE Ok(<< <<SetMin(lngs) + leftSetbackDeg,  SetMin(lats) + frontSetbackDeg>>,
                        <<SetMax(lngs) - rightSetbackDeg, SetMin(lats) + frontSetbackDeg>>,
                        <<SetMax(lngs) - rightSetbackDeg, SetMax(lats) - rearSetbackDeg>>,
                        <<SetMin(lngs) + leftSetbackDeg,  SetMax(lats) - rearSetbackDeg>> >>)

\* calculateBuildingCoverage, in 1e-4 square metres: parcelArea * (bcr ?? 60) / 100
calculateBuildingCoverage(parcelArea, zoning) ==
    parcelArea * (IF zoning.regulations.bcr.value = Undefined THEN 60
                  ELSE zoning.regulations.bcr.value)

\* Fault injection: a calculateMaxHeight that never applies the zoning's height limit.
calculateMaxHeight_unlimited(parcelArea, zoning, buildingCoverage) ==
    LET farPercent == IF zoning.regulations.far.value = Undefined THEN 200
                      ELSE zoning.regulations.far.value
        maxGFA == parcelArea * farPercent
    IN  IF buildingCoverage = 0 THEN (IF maxGFA = 0 THEN NaN ELSE 5000)
        ELSE Min(CeilDiv(maxGFA, buildingCoverage) * floorHeightOf(zoning), 5000)

\* Fault injection: a calculateMaxHeight that allows no building at all once the
\* FAR-implied height exceeds the zoning's height limit.
calculateMaxHeight_zeroAboveLimit(parcelArea, zoning, buildingCoverage) ==
    LET farPercent == IF zoning.regulations.far.value = Undefined THEN 200
                      ELSE zoning.regulations.far.value
        maxGFA == parcelArea * farPercent
        heightLimit == zoning.regulations.heightLimit.value
    IN  IF buildingCoverage = 0 THEN (IF maxGFA = 0 THEN NaN ELSE 5000)
        ELSE LET calculatedHeight ==
                   CeilDiv(maxGFA, buildingCoverage) * floorHeightOf(zoning)
             IN  IF heightLimit # Undefined /\ heightLimit # 0
                    /\ calculatedHeight > heightLimit * 10
                 THEN 0 ELSE Min(calculatedHeight, 5000)

\* calculateMaxHeight, tenths of a metre (buildingCoverage in 1e-4 square metres)
calculateMaxHeight(parcelArea, zoning, buildingCoverage) ==
    LET farPercent == IF zoning.regulations.far.value = Undefined THEN 200
                      ELSE zoning.regulations.far.value
        maxGFA == parcelArea * farPercent
        heightLimit == zoning.regulations.heightLimit.value
    IN  IF buildingCoverage = 0 THEN (IF maxGFA = 0 THEN NaN ELSE 5000)
        ELSE LET estimatedFloors  == CeilDiv(maxGFA, buildingCoverage)
                 calculatedHeight == estimatedFloors * floorHeightOf(zoning)
                 limited == IF heightLimit # Undefined /\ heightLimit # 0
                               /\ calculatedHeight > heightLimit * 10
                            THEN heightLimit * 10 ELSE calculatedHeight
             IN  Min(limited, 5000)

\* calculateStatistics: areas rounded to 0.01 square metre, ratios to 0.1 percent
\* (tenths of a percent; both areas are whole multiples of parcelArea)
calculateStatistics(parcelArea, buildingCoverage, maxHeight, zoning) ==
    IF maxHeight = NaN \/ parcelArea = 0
    THEN [grossFloorArea |-> NaN, buildingCoverage |-> RoundDiv(buildingCoverage, 100),
          estimatedFloors |-> NaN, farUsed |-> NaN, bcrUsed |-> NaN]
    ELSE LET estimatedFloors == maxHeight \div floorHeightOf(zoning)
             grossFloorArea  == buildingCoverage * estimatedFloors
         IN  [grossFloorArea   |-> RoundDiv(grossFloorArea, 100),
              buildingCoverage |-> RoundDiv(buildingCoverage, 100),
              estimatedFloors  |-> estimatedFloors,
              farUsed          |-> 10 * (grossFloorArea \div parcelArea),
              bcrUsed          |-> 10 * (buildingCoverage \div parcelArea)]

\* Fault injection: a calculateMassing whose overall confidence follows the FAR
\* tag alone.
calculateMassing_farTagOnly(parcel, zoning) ==
    LET far == zoning.regulations.far.confidence
        result(setbacks, buildableFootprint, buildingCoverage, maxHeight) ==
          IF buildableFootprint.threw THEN buildableFootprint
          ELSE Ok([envelope |-> [footprint |-> Get(buildableFootprint.value),
                                 maxHeight |-> maxHeight, setbacks |-> setbacks],
                   statistics |-> calculateStatistics(parcel.area, buildingCoverage,
                                                      maxHeight, zoning),
                   confidence |-> IF far = "high" THEN "high"
                                  ELSE IF far = "unknown" THEN "low" ELSE "medium"])
        withCoverage(setbacks, buildingCoverage) ==
          result(setbacks, calculateBuildableFootprint(parcel, setbacks),
                 buildingCoverage,
                 calculateMaxHeight(parcel.area, zoning, buildingCoverage))
    IN  withCoverage(getSetbacks(zoning.category),
                     calculateBuildingCoverage(parcel.area, zoning))

\* calculateMassing
calculateMassing(parcel, zoning) ==
    LET far == zoning.regulations.far.confidence
        bcr == zoning.regulations.bcr.confidence
        result(setbacks, buildableFootprint, buildingCoverage, maxHeight) ==
          IF buildableFootprint.threw THEN buildableFootprint
          ELSE Ok([envelope |-> [footprint |-> Get(buildableFootprint.value),
                                 maxHeight |-> maxHeight, setbacks |-> setbacks],
                   statistics |-> calculateStatistics(parcel.area, buildingCoverage,
                                                      maxHeight, zoning),
                   confidence |-> IF far = "high" /\ bcr = "high" THEN "high"
                                  ELSE IF far = "unknown" \/ bcr = "unknown" THEN "low"
                                  ELSE "medium"])
        withCoverage(setbacks, buildingCoverage) ==
          result(setbacks, calculateBuildableFootprint(parcel, setbacks),
                 buildingCoverage,
                 calculateMaxHeight(parcel.area, zoning, buildingCoverage))
    IN  withCoverage(getSetbacks(zoning.category),
                     calculateBuildingCoverage(parcel.area, zoning))

----------------------------------------------------------------------------
(* Confidence reporter: each list holds the labels of its items, in order *)

\* the list a regulation value goes to, by its confidence
byConfidence(confidence) ==
    IF confidence = "high" THEN "known"
    ELSE IF confidence = "medium" THEN "assumed" ELSE "missing"

\* Fault injection: a report that leaves the street setback out.
generateConfidenceReport_withoutRoadSetback(parcel, zoning, massing) ==
    LET height == zoning.regulations.heightLimit
        placed ==
          << [label |-> "address", list |-> "known"],
             [label |-> "parcel_area", list |-> "assumed"],
             [label |-> "zoning",
              list |-> IF zoning.source.reliability = "high" THEN "known" ELSE "assumed"],
             [label |-> "far", list |-> byConfidence(zoning.regulations.far.confidence)],
             [label |-> "bcr", list |-> byConfidence(zoning.regulations.bcr.confidence)],
             [label |-> "height_limit",
              list |-> IF height.value # Undefined /\ height.confidence # "unknown"
                       THEN (IF height.confidence = "high" THEN "known" ELSE "assumed")
                       ELSE "missing"],
             [label |-> "district_unit_plan", list |-> "missing"],
             [label |-> "redevelopment_zone", list |-> "missing"],
             [label |-> "sunlight_setback", list |-> "missing"] >>
        labelsOf(list) ==
          LET sel == SelectSeq(placed, LAMBDA it : it.list = list)
          IN  [i \in 1..Len(sel) |-> sel[i].label]
    IN  [known |-> labelsOf("known"), assumed |-> labelsOf("assumed"),
         missing |-> labelsOf("missing")]

\* generateConfidenceReport
generateConfidenceReport(parcel, zoning, massing) ==
    LET height == zoning.regulations.heightLimit
        placed ==
          << [label |-> "address", list |-> "known"],
             [label |-> "parcel_area", list |-> "assumed"],
             [label |-> "zoning",
              list |-> IF zoning.source.reliability = "high" THEN "known" ELSE "assumed"],
             [label |-> "far", list |-> byConfidence(zoning.regulations.far.confidence)],
             [label |-> "bcr", list |-> byConfidence(zoning.regulations.bcr.confidence)],
             [label |-> "height_limit",
              list |-> IF height.value # Undefined /\ height.confidence # "unknown"
                       THEN (IF height.confidence = "high" THEN "known" ELSE "assumed")
                       ELSE "missing"],
             [label |-> "district_unit_plan", list |-> "missing"],
             [label |-> "redevelopment_zone", list |-> "missing"],
             [label |-> "sunlight_setback", list |-> "missing"],
             [label |-> "road_setback", list |-> "missing"] >>
        labelsOf(list) ==
          LET sel == SelectSeq(placed, LAMBDA it : it.list = list)
          IN  [i \in 1..Len(sel) |-> sel[i].label]
    IN  [known |-> labelsOf("known"), assumed |-> labelsOf("assumed"),
         missing |-> labelsOf("missing")]

----------------------------------------------------------------------------
(* Inputs: addresses, registry responses, parcels *)

GANGNAM_GU == <<"gang","nam","gu">>
YEOKSAM_DONG == <<"yeok","sam","dong">>

ADDR_GANGNAM    == <<W(SIDO_SEOUL), W(GANGNAM_GU), W(YEOKSAM_DONG), N(123, 45)>>
ADDR_MAPO       == <<W(SIDO_SEOUL), W(<<"ma","po","gu">>), W(<<"hap","jeong","dong">>),
                     N(123, Undefined)>>
ADDR_SEONGDONG  == <<W(<<"seo","ul">>), W(<<"seong","dong","gu">>),
                     W(<<"seong","su","dong">>), N(1, Undefined)>>
ADDR_BIG_LOT    == <<W(SIDO_SEOUL), W(GANGNAM_GU), W(YEOKSAM_DONG), N(12345, Undefined)>>
ADDR_NO_DONG    == <<W(SIDO_SEOUL), W(GANGNAM_GU)>>
ADDR_SHORT      == <<W(<<"seo","ul">>)>>

\* with a lot on a hill (san), outside Seoul, without a district, and with a
\* district that is not one of Seoul's
Addresses ==
    {ADDR_GANGNAM, ADDR_MAPO, ADDR_SEONGDONG, ADDR_BIG_LOT, ADDR_NO_DONG, ADDR_SHORT,
     <<W(SIDO_SEOUL), W(GANGNAM_GU), W(YEOKSAM_DONG), W(<<"san">>), N(7, Undefined)>>,
     <<W(<<"bu","san","si">>), W(<<"hae","un","dae","gu">>), W(<<"u","dong">>),
       N(1, Undefined)>>,
     <<W(SIDO_SEOUL), W(YEOKSAM_DONG), N(1, Undefined)>>,
     <<W(<<"seo","ul","si">>), W(<<"hae","un","dae","gu">>), W(<<"u","dong">>),
       N(1, Undefined)>>}

\* a coordinate pair passed to fetchParcel directly (Seoul city hall)
COORDS_CITY_HALL == <<1269780000, 375665000>>

HttpFailure(kind) ==
    [kind |-> kind, features |-> <<>>, valid |-> FALSE, resultCode |-> "", items |-> None]
JsonFeatures(features) ==
    [kind |-> "json", features |-> features, valid |-> TRUE, resultCode |-> "",
     items |-> None]
JsonRegulations(valid, resultCode, items) ==
    [kind |-> "json", features |-> <<>>, valid |-> valid, resultCode |-> resultCode,
     items |-> items]

HttpFailures ==
    {HttpFailure("network_error"), HttpFailure("http_error"), HttpFailure("invalid_json")}

\* a lot of 16 m x 24 m in Gangnam-gu
REGISTRY_RING ==
    << <<1270469200, 375170800>>, <<1270470800, 375170800>>, <<1270470800, 375173200>>,
       <<1270469200, 375173200>>, <<1270469200, 375170800>> >>

REGISTRY_PNU == <<1,1,6,8,0,1,0,1,0,0,0,1,2,3,0,0,4,5,1>>

\* cadastral features: pnu, address parts (addr split on ' '), area property
\* (0 when absent), polygon rings
FEATURE_FULL ==
    [pnu |-> REGISTRY_PNU, addr |-> <<SIDO_SEOUL, GANGNAM_GU, YEOKSAM_DONG>>,
     area |-> 33000, coordinates |-> <<REGISTRY_RING>>]
FEATURE_BARE ==
    [pnu |-> <<>>, addr |-> << <<>> >>, area |-> 25000, coordinates |-> <<>>]

\* the registry's answers: failures, no feature, and a feature that is complete,
\* without area property, without geometry, or empty
ParcelResponses ==
    HttpFailures \cup {JsonFeatures(<<>>)} \cup
    {JsonFeatures(<<f>>) : f \in
       {FEATURE_FULL, [FEATURE_FULL EXCEPT !.area = 0], FEATURE_BARE,
        [FEATURE_BARE EXCEPT !.area = 0]}}

NAME_R2G       == ZoneName("R2G zone name", Some("R2G"), {"R2G"})
NAME_UNLISTED  == ZoneName("development restriction zone", None, {})

\* zone names: exact, containing a listed name, unlisted, empty
ZoningResponsesA ==
    HttpFailures \cup {JsonFeatures(<<>>)} \cup
    {JsonFeatures(<<n>>) : n \in
       {NAME_R2G, ZoneName("city area / R3G zone name", None, {"R3G"}), NAME_UNLISTED,
        ZoneName("", None, {})}}

ITEM_R2G     == [code |-> "UQA130", isUQA |-> TRUE, name |-> NAME_R2G]
ITEM_OPAQUE  == [code |-> "UQA999", isUQA |-> TRUE, name |-> NAME_UNLISTED]
ITEM_OVERLAY == [code |-> "UQQ300", isUQA |-> FALSE, name |-> NAME_UNLISTED]

ZoningResponsesB ==
    HttpFailures \cup
    { JsonRegulations(FALSE, "", None), JsonRegulations(TRUE, "99", None),
      JsonRegulations(TRUE, "00", None), JsonRegulations(TRUE, "00", Some(<<>>)),
      JsonRegulations(TRUE, "00", Some(<<ITEM_OVERLAY, ITEM_R2G>>)),
      JsonRegulations(TRUE, "00", Some(<<ITEM_OPAQUE>>)),
      JsonRegulations(TRUE, "00", Some(<<ITEM_OVERLAY>>)) }

\* a parcel a caller supplies for a lot outside Seoul (Haeundae-gu, Busan)
PARCEL_OUTSIDE ==
    [pnu |-> client_parsePNU(<<2,6,3,5,0,1,0,5,0,0,0,0,0,1,0,0,0,0,1>>),
     jibunAddress |-> [sido |-> <<"bu","san","gwang","yeok","si">>,
                       sigungu |-> <<"hae","un","dae","gu">>,
                       eupmyeondong |-> <<"u","dong">>,
                       bonbun |-> 1, bubun |-> Undefined, isSan |-> FALSE],
     coordinates |-> <<REGISTRY_RING>>, area |-> 33000,
     dataSource |-> [provider |-> "NSDI", reliability |-> "official"]]

\* mock parcels of addresses with a sub-district, parcels a registry client
\* builds from a feature, and the parcel outside Seoul
KoreaParcels ==
    LET mock(r) == Get(generateMockParcel(Get(r.coordinates), r.jibunAddress).value)
    IN  {mock(seoulAdapter_resolveAddress(a)) :
            a \in {ADDR_GANGNAM, ADDR_MAPO, ADDR_SEONGDONG, ADDR_BIG_LOT}}
        \cup {Get(client_parseFeatureToParcel(f, f.pnu, "VWORLD").value) :
                 f \in {FEATURE_FULL, FEATURE_BARE}}
        \cup {PARCEL_OUTSIDE}

LegacyParcels == {convertToLegacyParcel(p) : p \in KoreaParcels}

\* the inputs of the store's operations, and the registries' answers to them
StoreAddresses == {ADDR_GANGNAM, ADDR_SHORT}
StoreParcelResponses ==
    {HttpFailure("network_error"), JsonFeatures(<<FEATURE_FULL>>),
     JsonFeatures(<<FEATURE_BARE>>)}
StoreZoningResponsesA == {HttpFailure("http_error"), JsonFeatures(<<NAME_R2G>>)}
StoreZoningResponsesB ==
    {HttpFailure("network_error"),
     JsonRegulations(TRUE, "00", Some(<<ITEM_OVERLAY, ITEM_R2G>>)),
     JsonRegulations(TRUE, "00", Some(<<ITEM_OPAQUE>>))}
ManualCodes == {"R2G", "CG"}

\* zoning codes asked of getRegulations and given as manual codes
CodeInputs == ZoningCodes \cup {"UQA999", ""}

----------------------------------------------------------------------------
(* The pipeline store (zustand) *)

initialState ==
    [status |-> "idle", address |-> <<>>, parcel |-> None, zoning |-> None,
     massing |-> None, confidence |-> None, error |-> "", manualZoningCode |-> "",
     zoningRequiresManualSelection |-> FALSE]

NoCall == [op |-> "none"]

\* what a store step did: the operation it belongs to, the failure it handled
\* ("none" when it handled none), the registry requests answered in it,
\* whether any operation so far was called while another was in flight, and the
\* step's set() calls in order: the status a call sets, else the field it sets
Event(op, failure, requests, overlapped, sets) ==
    [op |-> op, failure |-> failure, requests |-> requests, overlapped |-> overlapped,
     sets |-> sets]

\* an async store operation suspended at an await
Task(op, pc, address, resolved, parcel, code) ==
    [op |-> op, pc |-> pc, address |-> address, resolved |-> resolved,
     parcel |-> parcel, code |-> code]

storeVars == <<store, tasks, lastEvent>>
callVars == <<call, ret>>
envVars == <<vworldKey, dataGoKrKey>>

\* The credentials are build-time environment values: any combination, fixed for the run.
Init ==
    /\ vworldKey \in BOOLEAN
    /\ dataGoKrKey \in BOOLEAN
    /\ call = NoCall
    /\ ret = [out |-> Ok("none"), requests |-> <<>>]
    /\ store = initialState
    /\ tasks = <<>>
    /\ lastEvent = Event("none", "none", <<>>, FALSE, <<>>)
    /\ healthStatus = [cadastral |-> "LOADING", regulation |-> "LOADING",
                       landUsePlan |-> "LOADING", errors |-> [regulation |-> ""]]

----------------------------------------------------------------------------
(* Calls of the adapter and of the facade functions, one action per         *)
(* operation.  These operations keep no state between calls, so a behaviour *)
(* makes one call in an environment with the credentials Init chose.       *)

AdapterResolveAddress ==
    \E a \in Addresses :
        /\ call = NoCall
        /\ call' = [op |-> "seoulAdapter.resolveAddress", input |-> a]
        /\ ret' = [out |-> Ok(seoulAdapter_resolveAddress(a)), requests |-> <<>>]
        /\ UNCHANGED <<envVars, storeVars, healthStatus>>

\* the input is the result of resolveAddress, or a coordinate pair
AdapterFetchParcel ==
    \E input \in {AddressInput(seoulAdapter_resolveAddress(a)) : a \in Addresses}
                  \cup {CoordsInput(COORDS_CITY_HALL)},
       rA \in ParcelResponses, rB \in ParcelResponses :
        /\ call = NoCall
        /\ call' = [op |-> "seoulAdapter.fetchParcel", input |-> input,
                    responseA |-> rA, responseB |-> rB]
        /\ ret' = seoulAdapter_fetchParcel(input, rA, rB)
        /\ UNCHANGED <<envVars, storeVars, healthStatus>>

AdapterResolveZoning ==
    \E parcel \in KoreaParcels, rA \in ZoningResponsesA, rB \in ZoningResponsesB :
        /\ call = NoCall
        /\ call' = [op |-> "seoulAdapter.resolveZoning", parcel |-> parcel,
                    responseA |-> rA, responseB |-> rB]
        /\ ret' = seoulAdapter_resolveZoning(parcel, rA, rB)
        /\ UNCHANGED <<envVars, storeVars, healthStatus>>

AdapterGetRegulations ==
    \E code \in CodeInputs :
        /\ call = NoCall
        /\ call' = [op |-> "seoulAdapter.getRegulations", code |-> code]
        /\ ret' = [out |-> Ok(seoulAdapter_getRegulations(code)), requests |-> <<>>]
        /\ UNCHANGED <<envVars, storeVars, healthStatus>>

FacadeResolveAddress ==
    \E a \in Addresses :
        /\ call = NoCall
        /\ call' = [op |-> "resolveAddress", input |-> a]
        /\ ret' = [out |-> resolveAddress(a), requests |-> <<>>]
        /\ UNCHANGED <<envVars, storeVars, healthStatus>>

\* the input is an address resolveAddress resolved
FacadeFetchParcel ==
    \E address \in {Get(resolveAddress(a).value) :
                       a \in {b \in Addresses : ~resolveAddress(b).threw}},
       rA \in ParcelResponses, rB \in ParcelResponses :
        /\ call = NoCall
        /\ call' = [op |-> "fetchParcel", input |-> address,
                    responseA |-> rA, responseB |-> rB]
        /\ ret' = fetchParcel(address, rA, rB)
        /\ UNCHANGED <<envVars, storeVars, healthStatus>>

PipelineResolveZoning ==
    \E parcel \in LegacyParcels, rA \in ZoningResponsesA, rB \in ZoningResponsesB :
        /\ call = NoCall
        /\ call' = [op |-> "resolveZoning", parcel |-> parcel,
                    responseA |-> rA, responseB |-> rB]
        /\ ret' = resolveZoning(parcel, rA, rB)
        /\ UNCHANGED <<envVars, storeVars, healthStatus>>

PipelineResolveZoningWithOverride ==
    \E parcel \in LegacyParcels, code \in CodeInputs,
       rA \in StoreZoningResponsesA, rB \in StoreZoningResponsesB :
        /\ call = NoCall
        /\ call' = [op |-> "resolveZoningWithOverride", parcel |-> parcel, code |-> code,
                    responseA |-> rA, responseB |-> rB]
        /\ ret' = resolveZoningWithOverride(parcel, code, rA, rB)
        /\ UNCHANGED <<envVars, storeVars, healthStatus>>

\* a ZoningInfo (types/index.ts) as a caller of calculateMassing may pass it:
\* values in percent and metres, Undefined for null
ZoningInfo(category, far, bcr, heightLimit, farConfidence, bcrConfidence) ==
    [code |-> "", category |-> category,
     regulations |->
       [far |-> [value |-> far, confidence |-> farConfidence],
        bcr |-> [value |-> bcr, confidence |-> bcrConfidence],
        heightLimit |-> [value |-> heightLimit, source |-> "ordinance",
                         confidence |-> IF heightLimit = Undefined THEN "unknown"
                                        ELSE "medium"]],
     source |-> [type |-> "manual", method |-> "manual", reliability |-> "high"]]

\* calculateMassing called on its own: the legacy parcels and a narrow lot of
\* 6 m x 40 m (240 square metres); zonings of every combination of category,
\* FAR, BCR and height limit, and one zoning under every pair of confidence tags
CalculateMassing ==
    \E parcel \in LegacyParcels \cup
                  {convertToLegacyParcel(
                     [PARCEL_OUTSIDE EXCEPT
                        !.coordinates =
                           << << <<1270469200, 375170800>>, <<1270469882, 375170800>>,
                                 <<1270469882, 375174404>>, <<1270469200, 375174404>>,
                                 <<1270469200, 375170800>> >> >>,
                        !.area = 24000])},
       zoning \in
         {ZoningInfo(category, far, bcr, heightLimit, "high", "high") :
             category \in {"residential", "commercial", "green"},
             far \in {Undefined, 100, 200, 250, 1500},
             bcr \in {Undefined, 10, 50, 60},
             heightLimit \in {Undefined, 10, 20, 510}}
         \cup
         {ZoningInfo("residential", 200, 60, Undefined, farConfidence, bcrConfidence) :
             farConfidence \in {"high", "medium", "low", "unknown"},
             bcrConfidence \in {"high", "medium", "low", "unknown"}} :
        /\ call = NoCall
        /\ call' = [op |-> "calculateMassing", parcel |-> parcel, zoning |-> zoning]
        /\ ret' = [out |-> calculateMassing(parcel, zoning), requests |-> <<>>]
        /\ UNCHANGED <<envVars, storeVars, healthStatus>>

\* generateConfidenceReport called on its own: the legacy parcels; zonings under
\* every pair of FAR and BCR confidence tags, with and without a height limit,
\* every height confidence tag and both source reliabilities; the massing is
\* the one calculateMassing returns for the pair
GenerateConfidenceReport ==
    \E parcel \in LegacyParcels,
       farConfidence \in {"high", "medium", "low", "unknown"},
       bcrConfidence \in {"high", "medium", "low", "unknown"},
       heightLimit \in {Undefined, 20},
       heightConfidence \in {"high", "medium", "unknown"},
       reliability \in {"high", "medium"} :
        LET zoning == [ZoningInfo("residential", 200, 60, heightLimit,
                                  farConfidence, bcrConfidence)
                         EXCEPT !.regulations.heightLimit.confidence = heightConfidence,
                                !.source.reliability = reliability]
            massing == calculateMassing(parcel, zoning)
        IN  /\ call = NoCall
            /\ ~massing.threw
            /\ call' = [op |-> "generateConfidenceReport", parcel |-> parcel,
                        zoning |-> zoning]
            /\ ret' = [out |-> Ok(generateConfidenceReport(parcel, zoning,
                                                           Get(massing.value))),
                       requests |-> <<>>]
            /\ UNCHANGED <<envVars, storeVars, healthStatus>>

\* buildPNU applied to a component set and parsePNU to its result; the fields
\* are of full width or shorter (buildPNU pads those)
PnuRoundTrip ==
    \E sido \in {<<1, 1>>, <<2, 6>>},
       sigungu \in {<<6, 8, 0>>, <<1, 1, 0>>, <<6, 8>>},
       eupmyeondong \in {<<1, 0, 1>>, <<0, 0, 5>>},
       ri \in {<<0, 0>>, <<2, 1>>},
       bonbun \in {<<0, 1, 2, 3>>, <<9, 9, 9, 9>>, <<7>>},
       bubun \in {<<0, 0, 0, 0>>, <<0, 0, 4, 5>>},
       sanType \in {1, 2} :
        LET components == [sido |-> sido, sigungu |-> sigungu,
                           eupmyeondong |-> eupmyeondong, ri |-> ri,
                           bonbun |-> bonbun, bubun |-> bubun, sanType |-> sanType]
            parsed(pnu) == [pnu |-> pnu, parsed |-> parsePNU(pnu)]
        IN  /\ call = NoCall
            /\ call' = [op |-> "parsePNU(buildPNU)", components |-> components]
            /\ ret' = [out |-> Ok(parsed(buildPNU(components))), requests |-> <<>>]
            /\ UNCHANGED <<envVars, storeVars, healthStatus>>

\* calculateAreaFromGeometry called on its own, on one ring: the registry lot, a
\* triangle, a concave pentagon, a clockwise quadrilateral, a ring that is not
\* closed and a ring of two points
CalculateAreaFromGeometry ==
    \E ring \in
         { REGISTRY_RING,
           << <<1270469200, 375170800>>, <<1270470200, 375170800>>,
              <<1270469600, 375171700>>, <<1270469200, 375170800>> >>,
           << <<1270469200, 375170800>>, <<1270470400, 375170800>>,
              <<1270470400, 375171600>>, <<1270469800, 375171100>>,
              <<1270469200, 375171800>>, <<1270469200, 375170800>> >>,
           << <<1270469200, 375170800>>, <<1270469300, 375171900>>,
              <<1270470500, 375171700>>, <<1270470100, 375170600>>,
              <<1270469200, 375170800>> >>,
           << <<1270469200, 375170800>>, <<1270470400, 375170800>>,
              <<1270470400, 375171600>>, <<1270469200, 375171800>> >>,
           << <<1270469200, 375170800>>, <<1270469200, 375170800>> >> } :
        /\ call = NoCall
        /\ call' = [op |-> "calculateAreaFromGeometry", coordinates |-> <<ring>>]
        /\ ret' = [out |-> calculateAreaFromGeometry(<<ring>>), requests |-> <<>>]
        /\ UNCHANGED <<envVars, storeVars, healthStatus>>

Next ==
    \/ AdapterResolveAddress
    \/ AdapterFetchParcel
    \/ AdapterResolveZoning
    \/ AdapterGetRegulations
    \/ FacadeResolveAddress
    \/ FacadeFetchParcel
    \/ PipelineResolveZoning
    \/ PipelineResolveZoningWithOverride
    \/ CalculateMassing
    \/ GenerateConfidenceReport
    \/ PnuRoundTrip
    \/ CalculateAreaFromGeometry

Spec == Init /\ [][Next]_vars

----------------------------------------------------------------------------
(* The store's operations.  analyze and recalculateWithZoning are async:    *)
(* each runs to its next await in one step, and any other operation may run *)
(* between two of its steps.  tasks holds the operations in flight, oldest  *)
(* first.                                                                   *)

\* at most this many async operations in flight at once
MaxTasks == 2

Remove(seq, i) == SubSeq(seq, 1, i - 1) \o SubSeq(seq, i + 1, Len(seq))

\* an operation called now overlaps another if one is in flight
Overlapped == lastEvent.overlapped \/ Len(tasks) > 0

\* setAddress
setAddress ==
    \E a \in StoreAddresses :
        /\ store' = [store EXCEPT !.address = a]
        /\ lastEvent' = Event("setAddress", "none", <<>>, Overlapped, <<"address">>)
        /\ UNCHANGED <<envVars, callVars, tasks, healthStatus>>

\* analyze, up to `await resolveAddress(address)`
analyze ==
    \E a \in StoreAddresses :
        /\ Len(tasks) < MaxTasks
        /\ store' = [initialState EXCEPT !.address = a, !.status = "resolving_address"]
        /\ tasks' = Append(tasks, Task("analyze", "resolveAddress", a, None, None, ""))
        /\ lastEvent' = Event("analyze", "none", <<>>, Overlapped,
                            <<"resolving_address", "resolving_address">>)
        /\ UNCHANGED <<envVars, callVars, healthStatus>>

\* Fault injection: an analyze that goes from the resolved address straight to
\* status resolving_zoning.
analyze_resolvedAddress_skipping ==
    \E i \in 1..Len(tasks) :
        /\ tasks[i].op = "analyze" /\ tasks[i].pc = "resolveAddress"
        /\ LET awaited(resolved) ==
                 IF resolved.threw
                 THEN /\ store' = [store EXCEPT !.status = "error",
                                                !.error = resolved.error.message]
                      /\ tasks' = Remove(tasks, i)
                      /\ lastEvent' = Event("analyze", "address", <<>>,
                                            lastEvent.overlapped, <<"error">>)
                 ELSE /\ store' = [store EXCEPT !.status = "resolving_zoning"]
                      /\ tasks' = [tasks EXCEPT ![i] =
                                     [@ EXCEPT !.pc = "fetchParcel",
                                               !.resolved = resolved.value]]
                      /\ lastEvent' = Event("analyze", "none", <<>>,
                                            lastEvent.overlapped, <<"resolving_zoning">>)
           IN  awaited(resolveAddress(tasks[i].address))
        /\ UNCHANGED <<envVars, callVars, healthStatus>>

\* analyze, from the result of resolveAddress up to `await fetchParcel(...)`
analyze_resolvedAddress ==
    \E i \in 1..Len(tasks) :
        /\ tasks[i].op = "analyze" /\ tasks[i].pc = "resolveAddress"
        /\ LET awaited(resolved) ==
                 IF resolved.threw
                 THEN /\ store' = [store EXCEPT !.status = "error",
                                                !.error = resolved.error.message]
                      /\ tasks' = Remove(tasks, i)
                      /\ lastEvent' = Event("analyze", "address", <<>>,
                                            lastEvent.overlapped, <<"error">>)
                 ELSE /\ store' = [store EXCEPT !.status = "fetching_parcel"]
                      /\ tasks' = [tasks EXCEPT ![i] =
                                     [@ EXCEPT !.pc = "fetchParcel",
                                               !.resolved = resolved.value]]
                      /\ lastEvent' = Event("analyze", "none", <<>>,
                                            lastEvent.overlapped, <<"fetching_parcel">>)
           IN  awaited(resolveAddress(tasks[i].address))
        /\ UNCHANGED <<envVars, callVars, healthStatus>>

\* analyze, from the result of fetchParcel up to the await of the zoning
\* resolution: the manual code is read from the store here
analyze_fetchedParcel ==
    \E i \in 1..Len(tasks), rA \in StoreParcelResponses, rB \in StoreParcelResponses :
        /\ tasks[i].op = "analyze" /\ tasks[i].pc = "fetchParcel"
        /\ LET awaited(fetched) ==
                 IF fetched.out.threw
                 THEN /\ store' = [store EXCEPT !.status = "error",
                                                !.error = fetched.out.error.message]
                      /\ tasks' = Remove(tasks, i)
                      /\ lastEvent' = Event("analyze", "parcel", fetched.requests,
                                            lastEvent.overlapped, <<"error">>)
                 ELSE /\ store' = [store EXCEPT !.parcel = fetched.out.value,
                                                !.status = "resolving_zoning"]
                      /\ tasks' = [tasks EXCEPT ![i] =
                                     [@ EXCEPT !.pc = "resolveZoning",
                                               !.parcel = fetched.out.value,
                                               !.code = store.manualZoningCode]]
                      /\ lastEvent' = Event("analyze", "none", fetched.requests,
                                            lastEvent.overlapped,
                                            <<"parcel", "resolving_zoning">>)
           IN  awaited(fetchParcel(Get(tasks[i].resolved), rA, rB))
        /\ UNCHANGED <<envVars, callVars, healthStatus>>

\* the set() calls from the result of the zoning resolution on: zoning, status
\* calculating_massing, then massing and confidence with status complete, or the
\* catch block's status error when calculateMassing throws
massingSets(massing) ==
    IF massing.threw THEN <<"zoning", "calculating_massing", "error">>
    ELSE <<"zoning", "calculating_massing", "massing", "confidence", "complete">>

\* the store after `calculateMassing` and `generateConfidenceReport` (both are
\* synchronous): complete, or the state the catch block leaves
afterMassing(current, parcel, zoning, massing) ==
    IF massing.threw
    THEN [current EXCEPT !.zoning = Some(zoning), !.status = "error",
                         !.error = massing.error.message]
    ELSE [current EXCEPT !.zoning = Some(zoning), !.massing = massing.value,
                         !.confidence = Some(generateConfidenceReport(
                                                parcel, zoning, Get(massing.value))),
                         !.status = "complete"]

\* analyze, from the result of the zoning resolution to its end
analyze_resolvedZoning ==
    \E i \in 1..Len(tasks), rA \in StoreZoningResponsesA, rB \in StoreZoningResponsesB :
        /\ tasks[i].op = "analyze" /\ tasks[i].pc = "resolveZoning"
        /\ LET parcel == Get(tasks[i].parcel)
               withMassing(zoning, massing, requests) ==
                 /\ store' = afterMassing(
                                [store EXCEPT !.zoningRequiresManualSelection = FALSE],
                                parcel, zoning, massing)
                 /\ lastEvent' = Event("analyze",
                                       IF massing.threw THEN "massing" ELSE "none",
                                       requests, lastEvent.overlapped,
                                       massingSets(massing))
               awaited(resolved) ==
                 IF ~resolved.out.threw
                 THEN withMassing(Get(resolved.out.value),
                                  calculateMassing(parcel, Get(resolved.out.value)),
                                  resolved.requests)
                 ELSE IF resolved.out.error.name = "ZoningResolutionError"
                         /\ resolved.out.error.requiresManualOverride
                 THEN /\ store' = [store EXCEPT !.status = "resolving_zoning",
                                                !.zoningRequiresManualSelection = TRUE,
                                                !.error = resolved.out.error.message]
                      /\ lastEvent' = Event("analyze", "zoning_manual_override",
                                            resolved.requests, lastEvent.overlapped,
                                            <<"resolving_zoning">>)
                 ELSE /\ store' = [store EXCEPT !.status = "error",
                                                !.error = resolved.out.error.message]
                      /\ lastEvent' = Event("analyze", "zoning", resolved.requests,
                                            lastEvent.overlapped, <<"error">>)
           IN  awaited(IF tasks[i].code # ""
                       THEN resolveZoningWithOverride(parcel, tasks[i].code, rA, rB)
                       ELSE resolveZoning(parcel, rA, rB))
        /\ tasks' = Remove(tasks, i)
        /\ UNCHANGED <<envVars, callVars, healthStatus>>

\* setManualZoning ("" is null)
setManualZoning ==
    \E code \in ManualCodes \cup {""} :
        /\ store' = [store EXCEPT !.manualZoningCode = code]
        /\ lastEvent' = Event("setManualZoning", "none", <<>>, Overlapped,
                            <<"manualZoningCode">>)
        /\ UNCHANGED <<envVars, callVars, tasks, healthStatus>>

\* recalculateWithZoning, up to `await resolveZoningWithOverride(parcel, code)`
recalculateWithZoning ==
    \E code \in ManualCodes :
        /\ IsSome(store.parcel) => Len(tasks) < MaxTasks
        /\ IF ~IsSome(store.parcel)
           THEN /\ store' = [store EXCEPT !.error = "no parcel; analyze an address first"]
                /\ tasks' = tasks
                /\ lastEvent' = Event("recalculateWithZoning", "no_parcel", <<>>,
                                      Overlapped, <<"errorMessage">>)
           ELSE /\ store' = [store EXCEPT !.status = "resolving_zoning",
                                          !.manualZoningCode = code]
                /\ tasks' = Append(tasks, Task("recalculateWithZoning", "resolveZoning",
                                               <<>>, None, store.parcel, code))
                /\ lastEvent' = Event("recalculateWithZoning", "none", <<>>, Overlapped,
                                      <<"resolving_zoning">>)
        /\ UNCHANGED <<envVars, callVars, healthStatus>>

\* recalculateWithZoning, from the result of resolveZoningWithOverride to its end
recalculateWithZoning_resolvedZoning ==
    \E i \in 1..Len(tasks), rA \in StoreZoningResponsesA, rB \in StoreZoningResponsesB :
        /\ tasks[i].op = "recalculateWithZoning" /\ tasks[i].pc = "resolveZoning"
        /\ LET parcel == Get(tasks[i].parcel)
               withMassing(zoning, massing, requests) ==
                 /\ store' = afterMassing(store, parcel, zoning, massing)
                 /\ lastEvent' = Event("recalculateWithZoning",
                                       IF massing.threw THEN "massing" ELSE "none",
                                       requests, lastEvent.overlapped,
                                       massingSets(massing))
               awaited(resolved) ==
                 IF ~resolved.out.threw
                 THEN withMassing(Get(resolved.out.value),
                                  calculateMassing(parcel, Get(resolved.out.value)),
                                  resolved.requests)
                 ELSE /\ store' = [store EXCEPT !.status = "error",
                                                !.error = resolved.out.error.message]
                      /\ lastEvent' = Event("recalculateWithZoning", "zoning",
                                            resolved.requests, lastEvent.overlapped,
                                            <<"error">>)
           IN  awaited(resolveZoningWithOverride(parcel, tasks[i].code, rA, rB))
        /\ tasks' = Remove(tasks, i)
        /\ UNCHANGED <<envVars, callVars, healthStatus>>

\* reset
reset ==
    /\ store' = initialState
    /\ lastEvent' = Event("reset", "none", <<>>, Overlapped, <<"idle">>)
    /\ UNCHANGED <<envVars, callVars, tasks, healthStatus>>

StoreNext ==
    \/ setAddress
    \/ analyze
    \/ analyze_resolvedAddress
    \/ analyze_fetchedParcel
    \/ analyze_resolvedZoning
    \/ setManualZoning
    \/ recalculateWithZoning
    \/ recalculateWithZoning_resolvedZoning
    \/ reset

StoreSpec == Init /\ [][StoreNext]_vars

----------------------------------------------------------------------------
(* The store driven by one caller that selects a manual zoning code and    *)
(* then analyzes an address, and waits for the analysis to end before the  *)
(* next selection.  `call` keeps what the caller passed.                   *)

\* setManualZoning(code) followed by analyze(address), up to analyze's first
\* await; zustand's set() merges its argument into the current state
setManualZoningThenAnalyze ==
    \E code \in ManualCodes, a \in StoreAddresses :
        LET merged(current, partial) ==
              [k \in DOMAIN current |->
                 IF k \in DOMAIN partial THEN partial[k] ELSE current[k]]
            selected == merged(store, [manualZoningCode |-> code])
        IN  /\ tasks = <<>>
            /\ store' = merged(selected, [initialState EXCEPT
                                            !.address = a,
                                            !.status = "resolving_address"])
            /\ tasks' = <<Task("analyze", "resolveAddress", a, None, None, "")>>
            /\ lastEvent' = Event("analyze", "none", <<>>, FALSE,
                                  <<"manualZoningCode", "resolving_address",
                                    "resolving_address">>)
            /\ call' = [op |-> "setManualZoning;analyze", code |-> code, address |-> a]
            /\ UNCHANGED <<envVars, ret, healthStatus>>

ManualSelectionSpec ==
    Init /\ [][\/ setAddress
               \/ setManualZoningThenAnalyze
               \/ analyze_resolvedAddress
               \/ analyze_fetchedParcel
               \/ analyze_resolvedZoning]_vars

----------------------------------------------------------------------------
(* Calls on one DataGoKrClient instance.  The instance outlives a call, so  *)
(* a behaviour makes any number of regulation requests on it, one after    *)
(* another.  The adapter and store specifications above do not follow the  *)
(* field: nothing outside the client reads it.                             *)

DataGoKrFetchRegulationsByPNU ==
    \E pnu \in {REGISTRY_PNU, SubSeq(REGISTRY_PNU, 1, 18)}, response \in ZoningResponsesB :
        /\ call' = [op |-> "DataGoKrClient.fetchRegulationsByPNU", pnu |-> pnu,
                    response |-> response]
        /\ ret' = [out |-> Ok(DataGoKr_fetchRegulationsByPNU(pnu, response)),
                   requests |-> <<>>]
        /\ healthStatus' = fetchRegulationsByPNU_healthStatus(healthStatus, pnu, response)
        /\ UNCHANGED <<envVars, storeVars>>

ClientSpec == Init /\ [][DataGoKrFetchRegulationsByPNU]_vars

----------------------------------------------------------------------------
(* Properties of the adapter and facade calls (checked under Spec)          *)

\* every registry lookup the call attempted failed
AllFailed(requests) == \A i \in 1..Len(requests) : ~requests[i].ok

ZoningFailureRequiresManualOverride ==
    (vworldKey /\ dataGoKrKey /\ AllFailed(ret.requests)) =>
        /\ call.op = "seoulAdapter.resolveZoning" =>
              (/\ ~ret.out.threw
               /\ ~Get(ret.out.value).success
               /\ Get(ret.out.value).method # "inference")
        /\ call.op = "resolveZoning" =>
              (/\ ret.out.threw
               /\ ret.out.error.name = "ZoningResolutionError"
               /\ ret.out.error.requiresManualOverride)

\* the pipeline's resolveZoning after Registry A and Registry B were both asked
\* about a Gangnam-gu parcel and both failed
ZoningBothRegistriesFailed ==
    /\ call.op = "resolveZoning"
    /\ vworldKey /\ dataGoKrKey
    /\ Len(ret.requests) = 2 /\ AllFailed(ret.requests)
    /\ ret.requests[1].registry = "VWORLD" /\ ret.requests[2].registry = "DATA_GO_KR"
    /\ call.parcel.address.sigungu = GANGNAM_GU
    /\ ret.out.threw /\ ret.out.error.requiresManualOverride

\* C4: for each of the 16 recognized zoning codes and any parcel,
\* resolveZoningWithOverride succeeds with method manual, confidence high and
\* the rule-table FAR and BCR of that code, whatever the credentials and the
\* registries' answers, and issues no registry request.
ManualOverrideIsAuthoritative ==
    /\ Cardinality(ZoningCodes) = 16
    /\ (call.op = "resolveZoningWithOverride" /\ call.code \in ZoningCodes) =>
          /\ ~ret.out.threw
          /\ Get(ret.out.value).code = call.code
          /\ Get(ret.out.value).source.method = "manual"
          /\ Get(ret.out.value).source.reliability = "high"
          /\ Get(ret.out.value).regulations.far.value
                = Lookup(SEOUL_REGULATIONS, call.code).far
          /\ Get(ret.out.value).regulations.bcr.value
                = Lookup(SEOUL_REGULATIONS, call.code).bcr
          /\ ret.requests = <<>>

\* a manual CG on a registry-supplied parcel while both registries are
\* configured and would answer R2G
ManualOverrideAgainstRegistries ==
    /\ call.op = "resolveZoningWithOverride"
    /\ call.code = "CG"
    /\ vworldKey /\ dataGoKrKey
    /\ call.responseA = JsonFeatures(<<NAME_R2G>>)
    /\ call.parcel.pnu = REGISTRY_PNU
    /\ ~ret.out.threw /\ Get(ret.out.value).source.method = "manual"

\* C5: with no credential configured, the adapter's fetchParcel on a resolved
\* address that carries a sub-district succeeds with source "mock" and the
\* district the address supplied; without a sub-district (a bare coordinate
\* pair, an address resolved at district level) it fails and yields no parcel.
MockParcelNeedsSubDistrict ==
    (call.op = "seoulAdapter.fetchParcel" /\ ~vworldKey /\ ~dataGoKrKey) =>
        IF ~call.input.isArray /\ call.input.success /\ IsSome(call.input.jibunAddress)
        THEN /\ ~ret.out.threw
             /\ Get(ret.out.value).success
             /\ Get(ret.out.value).source = "mock"
             /\ Get(Get(ret.out.value).parcel).jibunAddress
                   = Get(call.input.jibunAddress)
        ELSE ret.out.threw \/ (/\ ~Get(ret.out.value).success
                               /\ ~IsSome(Get(ret.out.value).parcel))

\* no credential, an address resolved at district level only: no parcel
MockParcelRefusedWithoutSubDistrict ==
    /\ call.op = "seoulAdapter.fetchParcel"
    /\ ~vworldKey /\ ~dataGoKrKey
    /\ ~call.input.isArray /\ call.input.success
    /\ ~IsSome(call.input.jibunAddress)
    /\ ret.out.threw

\* C9: the adapter's resolveZoning returns a result with method "inference"
\* only when neither credential is configured, and every such result is a
\* success with confidence "low" and the code the district-inference table
\* assigns to the parcel's district.
InferenceOnlyWithoutCredentials ==
    (/\ call.op = "seoulAdapter.resolveZoning"
     /\ ~ret.out.threw
     /\ Get(ret.out.value).method = "inference") =>
        /\ ~vworldKey /\ ~dataGoKrKey
        /\ Get(ret.out.value).success
        /\ Get(ret.out.value).confidence = "low"
        /\ HasKey(DISTRICT_ZONING_MAP, call.parcel.jibunAddress.sigungu)
        /\ Get(ret.out.value).zoningCode
              = Lookup(DISTRICT_ZONING_MAP, call.parcel.jibunAddress.sigungu)

\* a Mapo-gu parcel resolved by inference to the code of Mapo-gu
InferredFromDistrict ==
    /\ call.op = "seoulAdapter.resolveZoning"
    /\ call.parcel.jibunAddress.sigungu = <<"ma","po","gu">>
    /\ ~ret.out.threw
    /\ Get(ret.out.value).method = "inference"
    /\ Get(ret.out.value).zoningCode = "RSR"

\* C6: in the adapter's fetchParcel, Registry A is asked first whenever its
\* credential is configured; Registry B is asked whenever its credential is
\* configured and Registry A was unavailable or failed; a success is returned
\* and ends the lookups; no registry is asked twice.
ParcelLookupOrder ==
    (/\ call.op = "seoulAdapter.fetchParcel"
     /\ (call.input.isArray
           \/ (call.input.success /\ IsSome(call.input.coordinates)))) =>
        LET requests == ret.requests
            n == Len(ret.requests)
        IN  /\ vworldKey => (n >= 1 /\ requests[1].registry = "VWORLD")
            /\ (dataGoKrKey /\ (~vworldKey \/ (n >= 1 /\ ~requests[1].ok)))
                  => \E i \in 1..n : requests[i].registry = "DATA_GO_KR"
            /\ \A i \in 1..n :
                  requests[i].ok =>
                     (i = n /\ ~ret.out.threw /\ Get(ret.out.value).success)
            /\ \A i, j \in 1..n :
                  requests[i].registry = requests[j].registry => i = j

\* C7: resolveAddress, fetchParcel, resolveZoning and getRegulations of the
\* city adapter return every failure as a result; none of them throws or
\* rejects.
AdapterNeverThrows ==
    call.op \in {"seoulAdapter.resolveAddress", "seoulAdapter.fetchParcel",
                 "seoulAdapter.resolveZoning", "seoulAdapter.getRegulations"}
        => ~ret.out.threw

\* C8: a zoning failure carries requiresManualOverride only when at least one
\* credential is configured; with none configured and the parcel's district
\* absent from the inference table it fails without requiresManualOverride.
ManualOverrideOnlyWithCredential ==
    (call.op = "resolveZoning" /\ ret.out.threw) =>
        /\ ret.out.error.requiresManualOverride => (vworldKey \/ dataGoKrKey)
        /\ (/\ ~vworldKey /\ ~dataGoKrKey
            /\ ~HasKey(DISTRICT_ZONING_MAP, call.parcel.address.sigungu))
              => ~ret.out.error.requiresManualOverride

----------------------------------------------------------------------------
(* Properties of the pipeline store (checked under StoreSpec)               *)

\* C2: when the zoning of a completed analysis was resolved by district
\* inference, none of zoning code, FAR and BCR is tagged confidence high or
\* listed under known in the confidence report.
InferredZoningNeverKnown ==
    (store.status = "complete" /\ Get(store.zoning).source.method = "inference") =>
        /\ Get(store.zoning).source.reliability # "high"
        /\ Get(store.zoning).regulations.far.confidence # "high"
        /\ Get(store.zoning).regulations.bcr.confidence # "high"
        /\ Range(Get(store.confidence).known) \cap {"zoning", "far", "bcr"} = {}

\* C10: with the store's operations run one after another, a failure leads to
\* the manual-zoning prompt (zoningRequiresManualSelection, status not error,
\* parcel retained) exactly when it is a zoning failure carrying
\* requiresManualOverride; every other failure of address, parcel, zoning or
\* massing sets status error with a message and leaves
\* zoningRequiresManualSelection false.
OnlyManualOverridePrompts ==
    ~lastEvent.overlapped =>
        /\ lastEvent.failure = "zoning_manual_override" =>
              (/\ store.zoningRequiresManualSelection
               /\ store.status # "error"
               /\ IsSome(store.parcel))
        /\ lastEvent.failure \in {"address", "parcel", "zoning", "massing"} =>
              (/\ store.status = "error"
               /\ store.error # ""
               /\ ~store.zoningRequiresManualSelection)

\* C11: run on its own, recalculateWithZoning(code) on a store that holds a
\* parcel issues no registry request, leaves address and parcel unchanged, and
\* ends with status complete and with zoning, massing and confidence computed
\* for that code from the stored parcel.
RecalculateRecomputesFromStoredParcel ==
    [][(/\ lastEvent'.op = "recalculateWithZoning"
        /\ ~lastEvent'.overlapped
        /\ IsSome(store.parcel)) =>
          /\ store'.address = store.address
          /\ store'.parcel = store.parcel
          /\ lastEvent'.requests = <<>>
          /\ Len(tasks') < Len(tasks) =>
                /\ store'.status = "complete"
                /\ IsSome(store'.zoning)
                /\ Get(store'.zoning).code = tasks[1].code
                /\ Get(store'.zoning).source.method = "manual"
                /\ store'.massing
                      = calculateMassing(Get(store.parcel), Get(store'.zoning)).value
                /\ store'.confidence
                      = Some(generateConfidenceReport(Get(store.parcel),
                                                      Get(store'.zoning),
                                                      Get(store'.massing)))]_vars

\* C12: a continuation of an analyze that has been superseded (a newer analyze is
\* in flight, or reset was the call just before) is ignored: it leaves parcel,
\* zoning, massing, confidence, error and status as they are.
LateAnalyzeResultsIgnored ==
    [][\A i \in 1..Len(tasks) :
         LET Advanced(k) ==
               \/ tasks' = Remove(tasks, k)
               \/ Len(tasks') = Len(tasks) /\ tasks'[k] # tasks[k]
             superseded ==
               \/ lastEvent.op = "reset"
               \/ \E j \in (i + 1)..Len(tasks) : tasks[j].op = "analyze"
         IN  (/\ tasks[i].op = "analyze"
              /\ lastEvent'.op = "analyze"
              /\ Len(tasks') <= Len(tasks)
              /\ Advanced(i)
              /\ \A k \in 1..Len(tasks) : k # i => ~Advanced(k)
              /\ superseded) =>
                 /\ store'.parcel = store.parcel
                 /\ store'.zoning = store.zoning
                 /\ store'.massing = store.massing
                 /\ store'.confidence = store.confidence
                 /\ store'.error = store.error
                 /\ store'.status = store.status]_vars

\* a client result that reports a failure with a message
ReportsFailure(result) == ~result.success /\ result.error # ""

\* the HTTP call did not deliver a usable body: network exception, non-2xx
\* status or a body that is not JSON
TransportFailed(response) == response.kind # "json"

\* C22: whatever the outcome of its HTTP call (network exception, non-2xx
\* status, invalid body, result code other than 00, zero features or items,
\* malformed PNU key), each operation of both registry clients returns a result
\* with success = false and an error message.
ClientsReportEveryFailure ==
    /\ call.op = "seoulAdapter.fetchParcel" =>
          \A response \in {call.responseA, call.responseB} :
              (TransportFailed(response) \/ Len(response.features) = 0) =>
                  /\ ReportsFailure(VWorld_fetchParcelByCoordinates(0, 0, response))
                  /\ ReportsFailure(DataGoKr_fetchParcelByCoordinates(0, 0, response))
    /\ call.op = "seoulAdapter.resolveZoning" =>
          /\ (TransportFailed(call.responseA) \/ Len(call.responseA.features) = 0) =>
                ReportsFailure(VWorld_fetchZoningByCoordinates(0, 0, call.responseA))
          /\ (\/ ~validatePNU(call.parcel.pnu.full)
              \/ TransportFailed(call.responseB)
              \/ ~call.responseB.valid
              \/ call.responseB.resultCode # "00"
              \/ ~IsSome(call.responseB.items)
              \/ Len(Get(call.responseB.items)) = 0) =>
                ReportsFailure(DataGoKr_fetchRegulationsByPNU(call.parcel.pnu.full,
                                                              call.responseB))

\* Registry A is configured and answers the zoning lookup for a parcel with a
\* boundary ring with a zone name that is in neither table
RegistryAReturnsUnmatchedName ==
    /\ vworldKey
    /\ Len(call.parcel.coordinates) > 0
    /\ call.responseA.kind = "json"
    /\ Len(call.responseA.features) > 0
    /\ call.responseA.features[1].text # ""
    /\ ~IsSome(call.responseA.features[1].exact)
    /\ ~IsSome(firstIncluded(call.responseA.features[1]))

\* C23: when a registry returns a zone name that matches neither the exact
\* table nor any substring entry, the adapter's resolveZoning and the
\* pipeline's resolveZoning both succeed with the name passed through as an
\* opaque code tagged confidence medium.
UnmatchedNamePassesThrough ==
    /\ (call.op = "seoulAdapter.resolveZoning" /\ RegistryAReturnsUnmatchedName) =>
          /\ ~ret.out.threw
          /\ Get(ret.out.value).success
          /\ Get(ret.out.value).zoningCode = call.responseA.features[1].text
          /\ Get(ret.out.value).confidence = "medium"
    /\ (call.op = "resolveZoning" /\ RegistryAReturnsUnmatchedName) =>
          /\ ~ret.out.threw
          /\ Get(ret.out.value).code = call.responseA.features[1].text
          /\ Get(ret.out.value).source.reliability = "medium"

----------------------------------------------------------------------------
(* Properties of the massing calculator (checked under Spec)                *)

\* calculateMassing was called and returned a result
MassingReturned == call.op = "calculateMassing" /\ ~ret.out.threw

\* the area of a footprint rectangle in hundredths of a square metre: its sides
\* in millimetres, at 88000 m per degree of longitude and 111000 of latitude
FootprintArea(footprint) ==
    LET width  == ((footprint[2][1] - footprint[1][1]) * 88) \div 10
        height == ((footprint[3][2] - footprint[1][2]) * 111) \div 10
    IN  (width * height) \div 10000

\* the BCR the calculation applies: the zoning's, or 60 when it has none
BcrPercentOf(zoning) ==
    IF zoning.regulations.bcr.value = Undefined THEN 60 ELSE zoning.regulations.bcr.value

\* the FAR the calculation applies: the zoning's, or 200 when it has none
FarPercentOf(zoning) ==
    IF zoning.regulations.far.value = Undefined THEN 200 ELSE zoning.regulations.far.value

\* C13: the building coverage calculateMassing reports is the smaller of the
\* area of the setback-inset footprint and lotArea x BCR / 100, so it never
\* exceeds the area of the buildable footprint.
CoverageWithinFootprint ==
    MassingReturned =>
        LET massing == Get(ret.out.value)
            footprintArea == FootprintArea(massing.envelope.footprint)
        IN  /\ massing.statistics.buildingCoverage
                  = Min(footprintArea,
                        RoundDiv(call.parcel.area * BcrPercentOf(call.zoning), 100))
            /\ massing.statistics.buildingCoverage <= footprintArea

\* C14: for a parcel of positive area and a zoning with positive BCR, the gross
\* floor area calculateMassing reports is at most lotArea x FAR / 100, and
\* farUsed is at most the zoning's FAR.
GrossFloorAreaWithinFar ==
    (/\ MassingReturned
     /\ call.parcel.area > 0
     /\ call.zoning.regulations.bcr.value > 0
     /\ call.zoning.regulations.far.value # Undefined) =>
        LET statistics == Get(ret.out.value).statistics
            far == call.zoning.regulations.far.value
        IN  /\ statistics.grossFloorArea * 100 <= call.parcel.area * far
            /\ statistics.farUsed <= far * 10

\* the height the FAR implies, in tenths of a metre:
\* ceil(maxGFA / coverage) x floorHeight
FarImpliedHeight ==
    CeilDiv(call.parcel.area * FarPercentOf(call.zoning),
            call.parcel.area * BcrPercentOf(call.zoning)) * floorHeightOf(call.zoning)

\* calculateMassing returned for a zoning with an explicit height limit that the
\* FAR-implied height exceeds
HeightLimitBinds ==
    /\ MassingReturned
    /\ call.zoning.regulations.heightLimit.value # Undefined
    /\ FarImpliedHeight > call.zoning.regulations.heightLimit.value * 10

FloorsWithFar(far) ==
    Get(calculateMassing(call.parcel,
                         [call.zoning EXCEPT !.regulations.far.value = far]).value)
        .statistics.estimatedFloors

\* C16: for any parcel and any two zonings that differ only in FAR, the larger
\* FAR never yields a smaller estimatedFloors.
FloorsMonotoneInFar ==
    (MassingReturned /\ call.zoning.regulations.far.value # Undefined) =>
        \A far \in {100, 200, 250, 1500} :
            far > call.zoning.regulations.far.value =>
                FloorsWithFar(far) >= Get(ret.out.value).statistics.estimatedFloors

\* FAR 100 at BCR 50 gives 2 floors where FAR 250 gives 5
MoreFarMoreFloors ==
    /\ MassingReturned
    /\ call.zoning.regulations.far.value = 100
    /\ call.zoning.regulations.bcr.value = 50
    /\ Get(ret.out.value).statistics.estimatedFloors = 2
    /\ FloorsWithFar(250) = 5

\* C17: for every pair of FAR and BCR confidence tags, calculateMassing reports
\* overall confidence high iff both tags are high; otherwise low when either tag
\* is unknown, and medium in all remaining cases.
OverallConfidenceFromTags ==
    MassingReturned =>
        LET far == call.zoning.regulations.far.confidence
            bcr == call.zoning.regulations.bcr.confidence
            confidence == Get(ret.out.value).confidence
        IN  /\ confidence = "high" <=> (far = "high" /\ bcr = "high")
            /\ (far = "unknown" \/ bcr = "unknown") => confidence = "low"
            /\ (~(far = "high" /\ bcr = "high") /\ far # "unknown" /\ bcr # "unknown")
                  => confidence = "medium"

\* a FAR tagged high with a BCR tagged unknown: overall confidence low
HighFarUnknownBcrIsLow ==
    /\ MassingReturned
    /\ call.zoning.regulations.far.confidence = "high"
    /\ call.zoning.regulations.bcr.confidence = "unknown"
    /\ Get(ret.out.value).confidence = "low"

\* C19: every parcel a successful parcel resolution returns (from Registry A,
\* Registry B or the mock generator) carries a PNU of exactly 19 digits whose
\* last digit is 1 or 2.
ResolvedParcelHasWellFormedPNU ==
    (/\ call.op = "seoulAdapter.fetchParcel"
     /\ ~ret.out.threw
     /\ Get(ret.out.value).success
     /\ IsSome(Get(ret.out.value).parcel)) =>
        LET full == Get(Get(ret.out.value).parcel).pnu.full
        IN  /\ Len(full) = 19
            /\ \A i \in 1..Len(full) : full[i] \in 0..9
            /\ full[19] \in {1, 2}

\* C20: for a component set c whose fields have the widths 2/3/3/2/4/4 and
\* whose land-type flag is 1 or 2, buildPNU(c) has 19 characters and
\* parsePNU(buildPNU(c)) returns components equal to c.
PnuRoundTripReturnsComponents ==
    LET c == call.components
        built == Get(ret.out.value)
    IN  (/\ call.op = "parsePNU(buildPNU)"
         /\ Len(c.sido) = 2 /\ Len(c.sigungu) = 3 /\ Len(c.eupmyeondong) = 3
         /\ Len(c.ri) = 2 /\ Len(c.bonbun) = 4 /\ Len(c.bubun) = 4
         /\ c.sanType \in {1, 2}) =>
            /\ Len(built.pnu) = 19
            /\ IsSome(built.parsed)
            /\ \A field \in DOMAIN c : Get(built.parsed)[field] = c[field]

\* the components of a hillside lot 9999-45 came back from the round trip
HillsideLotRoundTrip ==
    /\ call.op = "parsePNU(buildPNU)"
    /\ call.components.bonbun = <<9, 9, 9, 9>>
    /\ call.components.bubun = <<0, 0, 4, 5>>
    /\ call.components.sanType = 2
    /\ Len(call.components.sigungu) = 3
    /\ IsSome(Get(ret.out.value).parsed)
    /\ Get(Get(ret.out.value).parsed).bonbun = <<9, 9, 9, 9>>
    /\ Get(Get(ret.out.value).parsed).sanType = 2
    /\ Len(Get(ret.out.value).pnu) = 19

\* a closed ring started at its (k+1)-th vertex
RotateRing(ring, k) ==
    LET n == Len(ring) - 1
        open == [i \in 1..n |-> ring[((i + k - 1) % n) + 1]]
    IN  Append(open, open[1])

\* a ring walked in the other direction
ReverseRing(ring) == [i \in 1..Len(ring) |-> ring[Len(ring) + 1 - i]]

\* C21: for every closed ring, calculateAreaFromGeometry returns the same area
\* when the ring starts at any other of its vertices and when its winding
\* direction is reversed.
AreaInvariantUnderRotationAndReversal ==
    LET ring == call.coordinates[1]
    IN  (/\ call.op = "calculateAreaFromGeometry"
         /\ Len(ring) >= 2
         /\ ring[1] = ring[Len(ring)]) =>
            /\ \A k \in 1..(Len(ring) - 2) :
                  calculateAreaFromGeometry(<<RotateRing(ring, k)>>) = ret.out
            /\ calculateAreaFromGeometry(<<ReverseRing(ring)>>) = ret.out
            /\ \A k \in 1..(Len(ring) - 2) :
                  calculateAreaFromGeometry(<<ReverseRing(RotateRing(ring, k))>>)
                     = ret.out

\* the concave pentagon has a positive area, and so have the ring started at its
\* third vertex and the ring reversed
ConcavePentagonMeasured ==
    /\ call.op = "calculateAreaFromGeometry"
    /\ Len(call.coordinates[1]) = 6
    /\ call.coordinates[1][1] = call.coordinates[1][6]
    /\ RotateRing(call.coordinates[1], 2) # call.coordinates[1]
    /\ ~ret.out.threw
    /\ Get(ret.out.value) > 0
    /\ calculateAreaFromGeometry(<<RotateRing(call.coordinates[1], 2)>>) = ret.out
    /\ calculateAreaFromGeometry(<<ReverseRing(call.coordinates[1])>>) = ret.out

----------------------------------------------------------------------------
(* Properties of the pipeline (checked under StoreSpec)                     *)

\* C18: a parcel of reliability tier estimated never leads to a massing result
\* of overall confidence high.  With no credential configured every parcel the
\* store holds is a mock parcel, whose tier is estimated.
EstimatedParcelNeverHighConfidence ==
    (/\ ~vworldKey /\ ~dataGoKrKey
     /\ IsSome(store.parcel)
     /\ IsSome(store.massing)) =>
        Get(store.massing).confidence # "high"

\* the place of a status in the pipeline's order; 0 for idle and error
StatusRank(status) ==
    CASE status = "resolving_address"   -> 1
      [] status = "fetching_parcel"     -> 2
      [] status = "resolving_zoning"    -> 3
      [] status = "calculating_massing" -> 4
      [] status = "complete"            -> 5
      [] OTHER                          -> 0

\* whether a set() call of a step sets the status
SetsStatus(set) == StatusRank(set) > 0 \/ set \in {"idle", "error"}

\* the status in effect just before the i-th set() call of a step that started
\* from the status `before`
StatusBefore(sets, i, before) ==
    LET earlier == {k \in 1..(i - 1) : SetsStatus(sets[k])}
    IN  IF earlier = {} THEN before
        ELSE sets[CHOOSE k \in earlier : \A m \in earlier : m <= k]

\* C24: within one analyze with no other store operation interleaved, status
\* goes through resolving_address, fetching_parcel, resolving_zoning,
\* calculating_massing, complete in that order, never skipping a stage or moving
\* back, and a stage starts only after the previous stage's output exists
\* (parcel before zoning, zoning before massing, massing before confidence).
AnalyzeStagesInOrder ==
    [][(lastEvent'.op = "analyze" /\ ~lastEvent'.overlapped) =>
         LET sets == lastEvent'.sets
             called == Len(tasks') > Len(tasks)
             SetEarlier(i, field) == \E k \in 1..(i - 1) : sets[k] = field
         IN  /\ called => sets[1] = "resolving_address"
             /\ store'.status = StatusBefore(sets, Len(sets) + 1, store.status)
             /\ \A i \in 1..Len(sets) :
                   LET before == StatusBefore(sets, i, store.status)
                   IN  /\ (StatusRank(sets[i]) > 0 /\ ~(called /\ i = 1)) =>
                             /\ StatusRank(before) > 0
                             /\ StatusRank(sets[i]) - StatusRank(before) \in {0, 1}
                       /\ (sets[i] = "resolving_zoning" /\ before # "resolving_zoning")
                             => (SetEarlier(i, "parcel") \/ IsSome(store.parcel))
                       /\ sets[i] = "calculating_massing"
                             => (SetEarlier(i, "zoning") \/ IsSome(store.zoning))
                       /\ sets[i] = "confidence"
                             => (SetEarlier(i, "massing") \/ IsSome(store.massing))]_vars

\* an analyze that ran alone has just gone from resolving_zoning through
\* calculating_massing to complete
AnalyzeRanToComplete ==
    /\ lastEvent.op = "analyze"
    /\ ~lastEvent.overlapped
    /\ store.status = "complete"
    /\ lastEvent.sets = <<"zoning", "calculating_massing", "massing", "confidence",
                          "complete">>
    /\ IsSome(store.parcel) /\ IsSome(store.zoning) /\ IsSome(store.massing)

----------------------------------------------------------------------------
(* Properties of the registry client instance (checked under ClientSpec)    *)

\* C25: no regulation request on a registry client changes client state that a
\* later call can observe: what getHealthStatus() returns is the same before
\* and after every fetchRegulationsByPNU call.
RequestsLeaveClientStateAlone ==
    [][call'.op = "DataGoKrClient.fetchRegulationsByPNU" => healthStatus' = healthStatus]_vars

----------------------------------------------------------------------------
(* Further properties of the adapter calls (checked under Spec)             *)

\* the lot an address was resolved to: mountain flag, main and sub number
LotNumber(jibunAddress) == <<jibunAddress.isSan, jibunAddress.bonbun, jibunAddress.bubun>>

\* C26: when the adapter's resolveAddress succeeds for an address, every other
\* address that resolves to the same district and sub-district with a
\* different lot number resolves to different coordinates.
DistinctLotsDistinctCoordinates ==
    (call.op = "seoulAdapter.resolveAddress" /\ Get(ret.out.value).success
        /\ IsSome(Get(ret.out.value).jibunAddress)) =>
      \A b \in Addresses :
        LET mine == Get(ret.out.value)
            other == seoulAdapter_resolveAddress(b)
            sameDong(x, y) == x.sigungu = y.sigungu /\ x.eupmyeondong = y.eupmyeondong
        IN  (other.success /\ IsSome(other.jibunAddress)
               /\ sameDong(Get(mine.jibunAddress), Get(other.jibunAddress))
               /\ LotNumber(Get(mine.jibunAddress)) # LotNumber(Get(other.jibunAddress)))
            => other.coordinates # mine.coordinates

\* the labels of a list of the report, as a set
LabelsOf(list) == {list[i] : i \in 1..Len(list)}

\* C27: whatever the parcel, zoning and massing, generateConfidenceReport lists
\* the district plan, the redevelopment-zone designation, the solar setback and
\* the street setback under missing, so missing has at least four entries.
StructuralGapsAlwaysMissing ==
    call.op = "generateConfidenceReport" =>
        /\ {"district_unit_plan", "redevelopment_zone", "sunlight_setback",
            "road_setback"} \subseteq LabelsOf(Get(ret.out.value).missing)
        /\ Len(Get(ret.out.value).missing) >= 4

\* a report on fully known regulations: the four structural gaps are all that
\* is missing
OnlyStructuralGapsMissing ==
    /\ call.op = "generateConfidenceReport"
    /\ call.zoning.regulations.far.confidence = "high"
    /\ call.zoning.regulations.heightLimit.confidence = "high"
    /\ call.zoning.regulations.heightLimit.value # Undefined
    /\ Len(Get(ret.out.value).missing) = 4

----------------------------------------------------------------------------
(* Further properties of the pipeline (checked under StoreSpec)             *)

\* C28: in every reachable state of the store, status complete implies that
\* parcel, zoning, massing and confidence are all set, error is null and
\* zoningRequiresManualSelection is false.
CompleteStateIsClean ==
    store.status = "complete" =>
        /\ IsSome(store.parcel) /\ IsSome(store.zoning)
        /\ IsSome(store.massing) /\ IsSome(store.confidence)
        /\ store.error = ""
        /\ ~store.zoningRequiresManualSelection

\* C29: in every reachable state with status complete that holds a parcel and
\* a zoning, massing is calculateMassing of the stored parcel and zoning, and
\* confidence is generateConfidenceReport of the stored parcel, zoning and
\* massing, whatever the interleaving of the store's operations.
DerivedResultsMatchStoredInputs ==
    (store.status = "complete" /\ IsSome(store.parcel) /\ IsSome(store.zoning)) =>
        LET massing == calculateMassing(Get(store.parcel), Get(store.zoning))
        IN  /\ ~massing.threw
            /\ store.massing = massing.value
            /\ store.confidence
                  = Some(generateConfidenceReport(Get(store.parcel), Get(store.zoning),
                                                  Get(massing.value)))

----------------------------------------------------------------------------
(* Properties of a manual selection made before analyze (checked under      *)
(* ManualSelectionSpec)                                                     *)

\* C30: when an analyze that was called right after setManualZoning(code) ends
\* with status complete, the stored zoning has that code with method manual,
\* and its zoning step issued no registry request.
StoredManualCodeUsedByAnalyze ==
    (call.op = "setManualZoning;analyze" /\ tasks = <<>> /\ lastEvent.op = "analyze"
        /\ store.status = "complete") =>
        /\ IsSome(store.zoning)
        /\ Get(store.zoning).code = call.code
        /\ Get(store.zoning).source.method = "manual"
        /\ lastEvent.requests = <<>>

====
